---- MODULE Spec2Model ----
(***************************************************************************)
(* Streaming analysis orchestrator of PSYCHOLOGYPRO-1:                     *)
(*   server/services/streaming-service.ts  (StreamingService)              *)
(*   storage (DatabaseStorage) and the HTTP routes that drive the service  *)
(*                                                                         *)
(* One run of processAnalysis is a sequence of atomic steps separated by   *)
(* its awaits on real I/O (storage calls, provider network reads, timers). *)
(* Node runs everything between two such awaits without interleaving, so   *)
(* each action below is one such stretch: the I/O takes effect and the     *)
(* continuation runs up to the next I/O await.  The HTTP handlers          *)
(* (streamAnalysis, stopStreaming, stopAnalysis) are synchronous and can   *)
(* run between any two steps of a run.                                     *)
(***************************************************************************)
EXTENDS Integers, Sequences, FiniteSets, TLC

VARIABLES
    analyses,       \* storage: the analyses table, job id -> row or NoRow
    users,          \* storage: the users table, user id -> row
    activeStreams,  \* StreamingService.activeStreams: job id -> ActiveStream or NoStream
    run,            \* per job: the locals and the position of its processAnalysis run
    subscribers,    \* per callback closure: its job and the events it was invoked with
    nq,             \* length of the question lists returned by the LLMService
    limits,         \* what the environment does at most: connections opened, increments per call
    log,            \* per job: history of what the service and the provider did
    probe           \* a direct call of one of the pure functions: its arguments and its
                    \* results; or the pendingCredits table with the claim calls in flight

vars == <<analyses, users, activeStreams, run, subscribers, nq, limits, log, probe>>

----------------------------------------------------------------------------
(* Bounds of the model *)

\* provider increments per streamResponse call
MaxChunks == 2
\* callback closures (SSE connections) that exist in the model
MaxCallbacks == 2
\* iterations of the streamDelay loop after the first (the code runs 100)
DelaySteps == 1
\* lengths of the question lists explored: one batch, and two batches
ShortList == 2
LongList == 6
\* longest text of words and blanks handed to the word-based truncation
MaxWordsLen == 13
\* longest text with sentence marks handed to either truncation
MaxTextLen == 6
\* longest list and largest batch size handed to createBatches
MaxQuestions == 26
MaxBatchSize == 6

----------------------------------------------------------------------------
(* Text: a string is a sequence of characters *)

\* the increments a provider call delivers, in order: the k-th increment of
\* the summary call and of a batch call.  How many of them arrive before the
\* stream ends or fails is free.
ChunkAt(phase, k) ==
    IF phase = 0
    THEN (IF k % 2 = 1 THEN <<"a">> ELSE <<" ", "b">>)
    ELSE (IF k % 2 = 1 THEN <<"b", " ">> ELSE <<"a">>)

\* the line feed and the carriage return, as symbols of a text
LF == "LF"
CR == "CR"

IsSpace(c) == c \in {" ", LF, CR}

Ellipsis == <<".", ".", ".">>

\* String.prototype.split(/\s+/): the pieces between maximal runs of
\* whitespace; a leading or trailing run leaves an empty piece at that end.
RECURSIVE SplitFrom(_, _, _)
SplitFrom(text, i, cur) ==
    IF i > Len(text) THEN <<cur>>
    ELSE IF IsSpace(text[i])
         THEN IF i > 1 /\ IsSpace(text[i - 1])
              THEN SplitFrom(text, i + 1, cur)
              ELSE <<cur>> \o SplitFrom(text, i + 1, <<>>)
         ELSE SplitFrom(text, i + 1, Append(cur, text[i]))

SplitWhitespace(text) == SplitFrom(text, 1, <<>>)

\* Array.prototype.join(' ')
RECURSIVE JoinSpace(_)
JoinSpace(words) ==
    IF Len(words) = 0 THEN <<>>
    ELSE IF Len(words) = 1 THEN words[1]
    ELSE words[1] \o <<" ">> \o JoinSpace(Tail(words))

Max(a, b) == IF a >= b THEN a ELSE b
Min(a, b) == IF a <= b THEN a ELSE b

\* Array.prototype.slice(0, n)
Slice0(s, n) == SubSeq(s, 1, Min(n, Len(s)))

\* faulty variant: the words are cut and joined again for every percentage
truncateToPercentageAlways(text, percentage) ==
    LET words == SplitWhitespace(text)
        targetLength == (Len(words) * percentage) \div 100
        truncated == JoinSpace(Slice0(words, Max(1, targetLength)))
    IN  truncated \o (IF Len(truncated) < Len(text) THEN Ellipsis ELSE <<>>)

\* StreamingService.truncateToPercentage (word based)
truncateToPercentage(text, percentage) ==
    IF percentage >= 100 THEN text
    ELSE LET words == SplitWhitespace(text)
             targetLength == (Len(words) * percentage) \div 100
             truncated == JoinSpace(Slice0(words, Max(1, targetLength)))
         IN  truncated \o (IF Len(truncated) < Len(text) THEN Ellipsis ELSE <<>>)

\* displayContent = hasFullAccess ? text : this.truncateToPercentage(text, 30)
PreviewPercentage == 30

\* faulty variant: the text is shown in full at either tier
displayContentUntruncated(hasFullAccess, text) == text

displayContent(hasFullAccess, text) ==
    IF hasFullAccess THEN text ELSE truncateToPercentage(text, PreviewPercentage)

\* getResultDisplayPercentage(true)
FullPercentage == 100

\* String.prototype.substring(0, n)
Prefix(text, n) == SubSeq(text, 1, Min(Max(n, 0), Len(text)))

\* String.prototype.trim
RECURSIVE TrimLeft(_)
TrimLeft(text) ==
    IF Len(text) > 0 /\ IsSpace(text[1]) THEN TrimLeft(Tail(text)) ELSE text

RECURSIVE TrimRight(_)
TrimRight(text) ==
    IF Len(text) > 0 /\ IsSpace(text[Len(text)])
    THEN TrimRight(SubSeq(text, 1, Len(text) - 1)) ELSE text

Trim(text) == TrimRight(TrimLeft(text))

\* text.substring(i, i + ending.length) === ending for one of the six
\* sentence endings; i is an index from 0
EndingAt(text, i) ==
    /\ i + 2 <= Len(text)
    /\ text[i + 1] \in {".", "!", "?"}
    /\ text[i + 2] \in {" ", "\n"}

\* how far below the target the client looks for a sentence ending
SentenceWindow == 100

\* the loop over i from targetLength down: an ending at i moves the cut to
\* i + 2, and the loop stops once the cut differs from the target
RECURSIVE SentenceScan(_, _, _, _)
SentenceScan(text, i, low, targetLength) ==
    IF i < low THEN targetLength
    ELSE IF EndingAt(text, i) /\ i + 2 # targetLength THEN i + 2
    ELSE SentenceScan(text, i - 1, low, targetLength)

\* while (cutPoint > 0 && text[cutPoint] !== ' ') cutPoint--
RECURSIVE WordScan(_, _)
WordScan(text, cutPoint) ==
    IF cutPoint > 0 /\ ~(cutPoint < Len(text) /\ text[cutPoint + 1] = " ")
    THEN WordScan(text, cutPoint - 1)
    ELSE cutPoint

\* faulty variant: the text is cut at the target index, wherever it falls
truncateToPercentageClientAtTarget(text, percentage) ==
    IF percentage >= 100 THEN text
    ELSE Trim(Prefix(text, (Len(text) * percentage) \div 100))

\* truncateToPercentage of client/src/utils/user-credits.ts (character based)
truncateToPercentageClient(text, percentage) ==
    IF percentage >= 100 THEN text
    ELSE LET targetLength == (Len(text) * percentage) \div 100
             found == SentenceScan(text, targetLength,
                                   Max(0, targetLength - SentenceWindow), targetLength)
             cutPoint == IF found = targetLength THEN WordScan(text, targetLength)
                         ELSE found
         IN  Trim(Prefix(text, cutPoint))

----------------------------------------------------------------------------
(* Analysis kinds, questions, batches, credit cost *)

Kinds == {"cognitive", "comprehensive-cognitive", "microcognitive",
          "psychological", "comprehensive-psychological", "micropsychological",
          "psychopathological", "comprehensive-psychopathological",
          "micropsychopathological"}

MicroKinds == {"microcognitive", "micropsychological", "micropsychopathological"}

CostCognitive == 2000
CostComprehensiveCognitive == 5000
CostMicrocognitive == 500
CostPsychological == 1500
CostComprehensivePsychological == 4000
CostMicropsychological == 400
CostPsychopathological == 1500
CostComprehensivePsychopathological == 4000
CostMicropsychopathological == 400
CostDefault == 2000

getRequiredCredits(analysisType) ==
    CASE analysisType = "cognitive" -> CostCognitive
      [] analysisType = "comprehensive-cognitive" -> CostComprehensiveCognitive
      [] analysisType = "microcognitive" -> CostMicrocognitive
      [] analysisType = "psychological" -> CostPsychological
      [] analysisType = "comprehensive-psychological" -> CostComprehensivePsychological
      [] analysisType = "micropsychological" -> CostMicropsychological
      [] analysisType = "psychopathological" -> CostPsychopathological
      [] analysisType = "comprehensive-psychopathological" -> CostComprehensivePsychopathological
      [] analysisType = "micropsychopathological" -> CostMicropsychopathological
      [] OTHER -> CostDefault

\* the question list of a kind; a question is represented by its position
getQuestions(n) == [q \in 1..n |-> q]

BatchSize == 5

\* StreamingService.createBatches
RECURSIVE createBatchesFrom(_, _, _)
createBatchesFrom(items, i, batchSize) ==
    IF i >= Len(items) THEN <<>>
    ELSE <<SubSeq(items, i + 1, Min(i + batchSize, Len(items)))>>
         \o createBatchesFrom(items, i + batchSize, batchSize)

\* faulty variant: a last batch that is not full is left out
createBatchesWholeOnly(items, batchSize) ==
    createBatchesFrom(SubSeq(items, 1, (Len(items) \div batchSize) * batchSize), 0, batchSize)

createBatches(items, batchSize) == createBatchesFrom(items, 0, batchSize)

----------------------------------------------------------------------------
(* Identities *)

JobIds == {"j1", "j2"}
UserIds == {"u1", "admin"}
NoUser == "none"
NoJob == "none"
Callbacks == 1..MaxCallbacks

\* user.username.toLowerCase() === 'jmkuczynski'
IsUnlimited(user) == user.username = "jmkuczynski"

NullResults == [shape |-> "null"]

----------------------------------------------------------------------------
(* Stream events and errors *)

Error(msg, batch, cause) == [msg |-> msg, batch |-> batch, cause |-> cause]
NoError == Error("", 0, "none")

Event(type, batchNumber, content, progress, error) ==
    [type |-> type, batchNumber |-> batchNumber, content |-> content,
     progress |-> progress, error |-> error]

SummaryEvent(content) == Event("summary", 0, content, 0, NoError)
RawStreamEvent(k, content) == Event("raw_stream", k, content, 0, NoError)
BatchCompleteEvent(k, content) == Event("batch_complete", k, content, 0, NoError)
DelayEvent(progress) == Event("delay", 0, <<>>, progress, NoError)
CompleteEvent == Event("complete", 0, <<>>, 0, NoError)
StoppedEvent == Event("stopped", 0, <<>>, 0, NoError)
ErrorEvent(error) == Event("error", 0, <<>>, 0, error)

TerminalTypes == {"complete", "error", "stopped"}

ErrNotFound == Error("Analysis not found", 0, "none")
ErrStopped == Error("Analysis stopped by user", 0, "none")
ErrNotSaved == Error("Analysis processing completed but results were not saved", 0, "none")
NoContent == "No content received from LLM"
ProviderError == "provider error"
\* the rethrow of streamSummary, processBatch and processMicroBatch
WrapError(type, phase, cause) ==
    IF phase = 0 THEN Error("Summary generation failed", 0, cause)
    ELSE IF type \in MicroKinds THEN Error("Micro batch processing failed", phase, cause)
    ELSE Error("Batch processing failed", phase, cause)

----------------------------------------------------------------------------
(* BroadcastRegistry: activeStreams is a Map, modelled as a function whose   *)
(* domain is the set of keys present                                         *)

MapSet(m, k, v) == [x \in (DOMAIN m) \cup {k} |-> IF x = k THEN v ELSE m[x]]
MapDelete(m, k) == [x \in (DOMAIN m) \ {k} |-> m[x]]

\* faulty variant: no try/catch around the invocation, so that the first
\* callback that throws ends the forEach
invokeCallbacksUncaught(subs, callbacks, data) ==
    [cb \in DOMAIN subs |->
        IF cb \in callbacks /\ \A before \in callbacks : before < cb => ~subs[before].throws
        THEN [subs[cb] EXCEPT !.received = Append(@, data)]
        ELSE subs[cb]]

\* stream.callbacks.forEach(callback => { try { callback(data) } catch ... }):
\* the callbacks are invoked in insertion order, which is the order of their
\* numbers; what a callback throws is logged and dropped
invokeCallbacks(subs, callbacks, data) ==
    [cb \in DOMAIN subs |->
        IF cb \in callbacks
        THEN [subs[cb] EXCEPT !.received = Append(@, data)]
        ELSE subs[cb]]

\* faulty variant: the active flag of the channel is not looked at
broadcastToStreamUnguarded(streams, subs, analysisId, data) ==
    IF analysisId \in DOMAIN streams
    THEN invokeCallbacks(subs, streams[analysisId].callbacks, data)
    ELSE subs

\* StreamingService.broadcastToStream: the subscribers after the fan-out
broadcastToStream(streams, subs, analysisId, data) ==
    IF analysisId \in DOMAIN streams /\ streams[analysisId].isActive
    THEN invokeCallbacks(subs, streams[analysisId].callbacks, data)
    ELSE subs

RECURSIVE broadcastAll(_, _, _, _)
broadcastAll(streams, subs, analysisId, events) ==
    IF events = <<>> THEN subs
    ELSE broadcastAll(streams, broadcastToStream(streams, subs, analysisId, events[1]),
                      analysisId, Tail(events))

\* faulty variant: only the flag is looked at, a missing channel is not a stop
StoppedByFlagOnly(streams, analysisId) ==
    analysisId \in DOMAIN streams /\ ~streams[analysisId].isActive

\* the check the batch loops make: !stream || !stream.isActive
Stopped(streams, analysisId) ==
    ~(analysisId \in DOMAIN streams /\ streams[analysisId].isActive)

----------------------------------------------------------------------------
(* State after construction and job intake *)

Row(type, userId) ==
    [type |-> type, userId |-> userId, status |-> "pending", results |-> NullResults]

UserTable(balance) ==
    [u \in UserIds |->
        IF u = "admin" THEN [username |-> "jmkuczynski", credits |-> 0]
        ELSE [username |-> "alice", credits |-> balance]]

IdleRun ==
    [pc |-> "idle", type |-> "none", userId |-> NoUser, hasFullAccess |-> FALSE,
     newCredits |-> 0, summary |-> <<>>, batchResults |-> <<>>, i |-> 0,
     fullResponse |-> <<>>, hasContent |-> FALSE, chunks |-> 0, step |-> 0,
     error |-> NoError]

OffRun == [IdleRun EXCEPT !.pc = "off"]

\* history of the first stopAnalysis call made while the run was in flight:
\* where the run stood, and whether the call found a channel
NoStop == [called |-> FALSE, channel |-> FALSE, writes |-> 0, calls |-> 0, pc |-> "none",
           step |-> 0]

\* fed: the text the provider delivered in each call, in call order;
\* writes: the storage writes of the run; emitted: the events the run handed
\* to broadcastToStream; resubscribed: a streamAnalysis call followed the stop
EmptyLog == [fed |-> <<>>, writes |-> <<>>, emitted |-> <<>>, stop |-> NoStop,
             resubscribed |-> FALSE]

\* early: attached before startAnalysis; detached: by "transport"
\* (stopStreaming), by "stop" (stopAnalysis), or "no"; throws: the callback
\* raises whenever it is invoked (res.write on a destroyed response)
NewSubscriber == [job |-> NoJob, received |-> <<>>, detached |-> "no", early |-> FALSE,
                  throws |-> FALSE]

\* the kinds whose runs the main specification explores: the one with the
\* inline batch loop, one with processBatchesWithResults and one micro kind
KindsUnderTest == {"cognitive", "psychological", "micropsychological"}

QuestionCounts == {ShortList, LongList}

\* no pure function is being called directly
NoProbe == [call |-> "none"]

InitWith(started, rows, tables, counts, connections, chunks) ==
    /\ limits = [connections |-> connections, chunks |-> chunks]
    /\ analyses \in rows
    /\ users \in tables
    /\ nq \in counts
    /\ activeStreams = [x \in {} |-> 0]
    /\ run = [j \in JobIds |-> IF j \in started THEN IdleRun ELSE OffRun]
    /\ subscribers = [cb \in Callbacks |-> NewSubscriber]
    /\ log = [j \in JobIds |-> EmptyLog]
    /\ probe = NoProbe

OneJobRows ==
    {[x \in {} |-> 0]} \cup
    {[x \in {"j1"} |-> Row(k, u)] : k \in KindsUnderTest, u \in {NoUser, "u1"}}

Init ==
    /\ InitWith({"j1"}, OneJobRows, {UserTable(CostCognitive)}, QuestionCounts, 1, MaxChunks)

----------------------------------------------------------------------------
(* HTTP-driven operations of the service *)

InFlight(j) == run[j].pc \notin {"off", "idle", "done"}

\* POST /api/analyses -> startAnalysis: processAnalysis starts in the
\* background and suspends at its first storage read
startAnalysis(j) ==
    /\ run[j].pc = "idle"
    /\ run' = [run EXCEPT ![j].pc = "getAnalysis"]
    /\ UNCHANGED <<analyses, users, activeStreams, subscribers, nq, limits, log, probe>>

\* the registry after streamAnalysis(analysisId, callback)
streamAnalysisMap(streams, analysisId, callback) ==
    LET created == IF analysisId \in DOMAIN streams THEN streams
                   ELSE MapSet(streams, analysisId, [callbacks |-> {}, isActive |-> TRUE])
    IN  [created EXCEPT ![analysisId].callbacks = @ \cup {callback}]

\* GET /api/analyses/:id/stream: a new connection, with a new callback closure
streamAnalysis(j) ==
    /\ run[j].pc # "off"
    /\ \E cb \in Callbacks :
        /\ cb <= limits.connections
        /\ subscribers[cb].job = NoJob
        /\ \A other \in Callbacks : other < cb => subscribers[other].job # NoJob
        /\ activeStreams' = streamAnalysisMap(activeStreams, j, cb)
        /\ subscribers' = [subscribers EXCEPT ![cb].job = j,
                                             ![cb].early = (run[j].pc = "idle")]
    /\ log' = [log EXCEPT ![j].resubscribed = @ \/ log[j].stop.called]
    /\ UNCHANGED <<analyses, users, run, nq, limits, probe>>

\* faulty variant: the callbacks are cleared but the entry stays in the map
stopStreamingKeepsEntry(streams, analysisId) ==
    IF analysisId \in DOMAIN streams
    THEN [streams EXCEPT ![analysisId] = [callbacks |-> {}, isActive |-> FALSE]]
    ELSE streams

\* the registry after stopStreaming(analysisId)
stopStreamingMap(streams, analysisId) ==
    IF analysisId \in DOMAIN streams THEN MapDelete(streams, analysisId) ELSE streams

\* req.on('close') -> stopStreaming
stopStreaming(j) ==
    /\ j \in DOMAIN activeStreams
    /\ activeStreams' = stopStreamingMap(activeStreams, j)
    /\ subscribers' = [cb \in Callbacks |->
                          IF cb \in activeStreams[j].callbacks
                          THEN [subscribers[cb] EXCEPT !.detached = "transport"]
                          ELSE subscribers[cb]]
    /\ UNCHANGED <<analyses, users, run, nq, limits, log, probe>>

\* faulty variant: the flag is cleared and the entry is left in the map
stopAnalysisEffectKeepsEntry(streams, subs, analysisId) ==
    IF analysisId \in DOMAIN streams
    THEN LET flagged == [streams EXCEPT ![analysisId].isActive = FALSE]
             told == broadcastToStream(flagged, subs, analysisId, StoppedEvent)
         IN  <<[flagged EXCEPT ![analysisId].callbacks = {}], told>>
    ELSE <<streams, subs>>

\* faulty variant: the whole registry is cleared instead of the one entry
stopAnalysisEffectClearsRegistry(streams, subs, analysisId) ==
    IF analysisId \in DOMAIN streams
    THEN <<[x \in {} |-> 0], subs>>
    ELSE <<streams, subs>>

\* stopAnalysis, statement by statement: the flag is cleared, then the
\* stopped event is handed to broadcastToStream, then the callbacks are
\* cleared and the entry is deleted.  The result is the pair of the registry
\* and the subscribers after the call.
stopAnalysisEffect(streams, subs, analysisId) ==
    IF analysisId \in DOMAIN streams
    THEN LET flagged == [streams EXCEPT ![analysisId].isActive = FALSE]
             told == broadcastToStream(flagged, subs, analysisId, StoppedEvent)
         IN  <<MapDelete(flagged, analysisId), told>>
    ELSE <<streams, subs>>

\* DELETE /api/analyses/:id -> stopAnalysis
stopAnalysis(j) ==
    /\ InFlight(j) \/ j \in DOMAIN activeStreams
    /\ LET eff == stopAnalysisEffect(activeStreams, subscribers, j)
           was == IF j \in DOMAIN activeStreams THEN activeStreams[j].callbacks ELSE {}
       IN  /\ activeStreams' = eff[1]
           /\ subscribers' = [cb \in Callbacks |->
                                 IF cb \in was /\ eff[2][cb].detached = "no"
                                 THEN [eff[2][cb] EXCEPT !.detached = "stop"]
                                 ELSE eff[2][cb]]
    /\ log' = [log EXCEPT ![j].stop =
                  IF InFlight(j) /\ ~@.called
                  THEN [called |-> TRUE, channel |-> j \in DOMAIN activeStreams,
                        writes |-> Len(log[j].writes), calls |-> Len(log[j].fed),
                        pc |-> run[j].pc, step |-> run[j].step]
                  ELSE @]
    /\ UNCHANGED <<analyses, users, run, nq, limits, probe>>

----------------------------------------------------------------------------
(* Storage operations *)

updateAnalysisStatus(table, id, status) ==
    IF id \in DOMAIN table THEN [table EXCEPT ![id].status = status] ELSE table

updateAnalysisResults(table, id, results) ==
    IF id \in DOMAIN table THEN [table EXCEPT ![id].results = results] ELSE table

\* faulty variant: the balance decides for every identity
checkUserCreditsByBalance(user, requiredCredits) == user.credits >= requiredCredits

\* checkUserCredits, for a user row that exists
checkUserCredits(user, requiredCredits) ==
    IF IsUnlimited(user) THEN TRUE ELSE user.credits >= requiredCredits

\* consumeUserCredits: the balance it writes
newCredits(user, creditsUsed) == Max(0, user.credits - creditsUsed)

StatusWrite(status) == [op |-> "status", value |-> status]
ResultsWrite(shape) == [op |-> "results", value |-> shape]

----------------------------------------------------------------------------
(* processAnalysis: control flow between its awaits *)

NumBatches == Len(createBatches(getQuestions(nq), BatchSize))

\* a streamResponse call is issued for the summary (phase 0) or batch `phase`
StartCall(r, phase) ==
    [r EXCEPT !.pc = "stream", !.i = phase, !.fullResponse = <<>>,
              !.hasContent = FALSE, !.chunks = 0]

\* faulty variant: the catch block persists nothing
ThrowUnrecorded(r, e) == [r EXCEPT !.pc = "done", !.error = e]

\* an exception reaches the catch block of processAnalysis
Throw(r, e) == [r EXCEPT !.pc = "errStatus", !.error = e]

\* faulty variant: the inline loop ends and what it has is saved
StopOutcomeSavesBatches(r) ==
    IF r.type = "cognitive" THEN [r EXCEPT !.pc = "saveResults"] ELSE Throw(r, ErrStopped)

\* faulty variant: a stop ends the run where it stands, with no write
StopOutcomeSilent(r) == [r EXCEPT !.pc = "done"]

\* what a batch loop does when it finds the channel absent or inactive:
\* processCognitiveAnalysis returns, so processAnalysis goes on to re-read
\* the job; the shared loops throw
StopOutcome(r) ==
    IF r.type = "cognitive" THEN [r EXCEPT !.pc = "verify"] ELSE Throw(r, ErrStopped)

\* faulty variant: the loop does not look at the channel before a batch
LoopHeadUnchecked(streams, j, r, idx) ==
    IF idx >= NumBatches THEN [r EXCEPT !.pc = "saveResults"]
    ELSE StartCall(r, idx + 1)

\* top of the batch loop at 0-based index idx
LoopHead(streams, j, r, idx) ==
    IF idx >= NumBatches THEN [r EXCEPT !.pc = "saveResults"]
    ELSE IF Stopped(streams, j) THEN StopOutcome(r)
    ELSE StartCall(r, idx + 1)

\* Math.round((step / steps) * 100)
DelayProgress(step) == (200 * step + DelaySteps) \div (2 * DelaySteps)

\* faulty variant: the delay also follows the last batch
AfterBatchAlwaysDelays(streams, j, r) ==
    IF Stopped(streams, j) THEN [r |-> StopOutcome(r), evs |-> <<>>]
    ELSE [r |-> [r EXCEPT !.pc = "delay", !.step = 0], evs |-> <<DelayEvent(DelayProgress(0))>>]

\* the rest of a loop iteration after processBatch has returned for batch r.i
AfterBatch(streams, j, r) ==
    IF Stopped(streams, j) THEN [r |-> StopOutcome(r), evs |-> <<>>]
    ELSE IF r.i - 1 < NumBatches - 1
         THEN [r |-> [r EXCEPT !.pc = "delay", !.step = 0], evs |-> <<DelayEvent(DelayProgress(0))>>]
         ELSE [r |-> LoopHead(streams, j, r, r.i), evs |-> <<>>]

\* faulty variant: the batch keeps the snapshot it broadcast
batchResponseDisplayed(r) == displayContent(r.hasFullAccess, r.fullResponse)

\* the value a finished batch contributes to batchResults
batchResponse(r) == r.fullResponse

\* the value streamSummary returns
summaryResult(r) == r.fullResponse

finalResults(r) ==
    [shape |-> "success", summary |-> r.summary, batches |-> r.batchResults,
     questions |-> getQuestions(nq), type |-> r.type]

\* faulty variant: the error descriptor keeps the batches obtained so far
errorResultsPartial(r) ==
    [shape |-> "error", error |-> r.error, type |-> r.type, batches |-> r.batchResults]

errorResults(r) == [shape |-> "error", error |-> r.error, type |-> r.type]

\* bookkeeping shared by the steps of a run
RunStep(j, r2, evs, ws) ==
    /\ run' = [run EXCEPT ![j] = r2]
    /\ subscribers' = broadcastAll(activeStreams, subscribers, j, evs)
    /\ log' = [log EXCEPT ![j].emitted = @ \o evs,
                          ![j].writes = @ \o ws,
                          ![j].fed = IF r2.pc = "stream" /\ (run[j].pc # "stream" \/ r2.i # run[j].i)
                                     THEN Append(@, <<>>) ELSE @]
    /\ UNCHANGED <<nq, limits, probe>>

----------------------------------------------------------------------------
(* processAnalysis: the steps of a run *)

\* faulty variant: the missing job is reported from inside the try block, so
\* that the catch block of processAnalysis records the failure
GetAnalysisCatchesNotFound(j) ==
    /\ run[j].pc = "getAnalysis"
    /\ IF j \notin DOMAIN analyses
       THEN RunStep(j, Throw(run[j], ErrNotFound), <<>>, <<>>)
       ELSE LET row == analyses[j]
                r1 == [run[j] EXCEPT !.type = row.type, !.userId = row.userId]
            IN  RunStep(j, [r1 EXCEPT !.pc = IF row.userId # NoUser
                                             THEN "checkUserCredits" ELSE "setStreaming"],
                        <<>>, <<>>)
    /\ UNCHANGED <<analyses, users, activeStreams>>

\* faulty variant: a job without an owner is granted full access
GetAnalysisGrantsAnonymous(j) ==
    /\ run[j].pc = "getAnalysis"
    /\ IF j \notin DOMAIN analyses
       THEN RunStep(j, [run[j] EXCEPT !.pc = "done", !.error = ErrNotFound],
                    <<ErrorEvent(ErrNotFound)>>, <<>>)
       ELSE LET row == analyses[j]
                r1 == [run[j] EXCEPT !.type = row.type, !.userId = row.userId]
            IN  IF row.userId # NoUser
                THEN RunStep(j, [r1 EXCEPT !.pc = "checkUserCredits"], <<>>, <<>>)
                ELSE RunStep(j, [r1 EXCEPT !.pc = "setStreaming", !.hasFullAccess = TRUE],
                             <<>>, <<>>)
    /\ UNCHANGED <<analyses, users, activeStreams>>

\* const analysis = await this.storage.getAnalysis(analysisId)
GetAnalysis(j) ==
    /\ run[j].pc = "getAnalysis"
    /\ IF j \notin DOMAIN analyses
       THEN \* thrown outside the try: only startAnalysis' catch sees it
            RunStep(j, [run[j] EXCEPT !.pc = "done", !.error = ErrNotFound],
                    <<ErrorEvent(ErrNotFound)>>, <<>>)
       ELSE LET row == analyses[j]
                r1 == [run[j] EXCEPT !.type = row.type, !.userId = row.userId]
            IN  RunStep(j, [r1 EXCEPT !.pc = IF row.userId # NoUser
                                             THEN "checkUserCredits" ELSE "setStreaming"],
                        <<>>, <<>>)
    /\ UNCHANGED <<analyses, users, activeStreams>>

\* faulty variant: the check and the deduction are one step
CheckUserCreditsDeducts(j) ==
    /\ run[j].pc = "checkUserCredits"
    /\ LET user == users[run[j].userId]
           cost == getRequiredCredits(run[j].type)
           hasCredits == checkUserCredits(user, cost)
       IN  /\ users' = IF hasCredits /\ ~IsUnlimited(user)
                       THEN [users EXCEPT ![run[j].userId].credits = newCredits(user, cost)]
                       ELSE users
           /\ RunStep(j, [run[j] EXCEPT !.pc = "setStreaming", !.hasFullAccess = hasCredits],
                      <<>>, <<>>)
    /\ UNCHANGED <<analyses, activeStreams>>

\* const hasCredits = await this.storage.checkUserCredits(...)
CheckUserCredits(j) ==
    /\ run[j].pc = "checkUserCredits"
    /\ LET hasCredits == checkUserCredits(users[run[j].userId], getRequiredCredits(run[j].type))
       IN  RunStep(j, [run[j] EXCEPT !.pc = IF hasCredits THEN "consumeRead" ELSE "setStreaming"],
                   <<>>, <<>>)
    /\ UNCHANGED <<analyses, users, activeStreams>>

\* consumeUserCredits, first await: const user = await this.getUserById(userId)
ConsumeRead(j) ==
    /\ run[j].pc = "consumeRead"
    /\ LET user == users[run[j].userId]
       IN  IF IsUnlimited(user)
           THEN RunStep(j, [run[j] EXCEPT !.pc = "setStreaming", !.hasFullAccess = TRUE],
                        <<>>, <<>>)
           ELSE RunStep(j, [run[j] EXCEPT !.pc = "consumeWrite",
                               !.newCredits = newCredits(user, getRequiredCredits(run[j].type))],
                        <<>>, <<>>)
    /\ UNCHANGED <<analyses, users, activeStreams>>

\* consumeUserCredits, second await: await this.updateUserCredits(userId, newCredits)
ConsumeWrite(j) ==
    /\ run[j].pc = "consumeWrite"
    /\ users' = [users EXCEPT ![run[j].userId].credits = run[j].newCredits]
    /\ RunStep(j, [run[j] EXCEPT !.pc = "setStreaming", !.hasFullAccess = TRUE], <<>>, <<>>)
    /\ UNCHANGED <<analyses, activeStreams>>

\* await this.storage.updateAnalysisStatus(analysisId, "streaming"); the run
\* enters the try block and streamSummary issues the first provider call
SetStreaming(j) ==
    /\ run[j].pc = "setStreaming"
    /\ analyses' = updateAnalysisStatus(analyses, j, "streaming")
    /\ RunStep(j, StartCall(run[j], 0), <<>>, <<StatusWrite("streaming")>>)
    /\ UNCHANGED <<users, activeStreams>>

\* the onChunk callback of streamSummary, processBatch and processMicroBatch
OnChunk(r, chunk) ==
    LET acc == r.fullResponse \o chunk
        shown == displayContent(r.hasFullAccess, acc)
    IN  [r |-> [r EXCEPT !.fullResponse = acc, !.hasContent = TRUE, !.chunks = @ + 1],
         evs |-> <<IF r.i = 0 THEN SummaryEvent(shown) ELSE RawStreamEvent(r.i, shown)>>]

\* the provider delivers one increment
ProviderChunk(j) ==
    /\ run[j].pc = "stream"
    /\ run[j].chunks < limits.chunks
    /\ LET chunk == ChunkAt(run[j].i, run[j].chunks + 1)
           out == OnChunk(run[j], chunk)
       IN  /\ run' = [run EXCEPT ![j] = out.r]
           /\ subscribers' = broadcastAll(activeStreams, subscribers, j, out.evs)
           /\ log' = [log EXCEPT ![j].emitted = @ \o out.evs,
                                 ![j].fed[Len(log[j].fed)] = @ \o chunk]
    /\ UNCHANGED <<analyses, users, activeStreams, nq, limits, probe>>

\* faulty variant: a call that delivered nothing is taken as an empty answer
StreamEndAcceptsEmpty(streams, j, r) ==
    IF r.i = 0
    THEN [r |-> LoopHead(streams, j, [r EXCEPT !.summary = summaryResult(r)], 0), evs |-> <<>>]
    ELSE LET done == BatchCompleteEvent(r.i, displayContent(r.hasFullAccess, r.fullResponse))
             rest == AfterBatch(streams, j, [r EXCEPT !.batchResults = Append(@, batchResponse(r))])
         IN  [r |-> rest.r, evs |-> <<done>> \o rest.evs]

\* the provider stream ends normally (reader done, or the [DONE] sentinel)
StreamEnd(streams, j, r) ==
    IF ~r.hasContent
    THEN [r |-> Throw(r, WrapError(r.type, r.i, NoContent)), evs |-> <<>>]
    ELSE IF r.i = 0
    THEN [r |-> LoopHead(streams, j, [r EXCEPT !.summary = summaryResult(r)], 0), evs |-> <<>>]
    ELSE LET done == BatchCompleteEvent(r.i, displayContent(r.hasFullAccess, r.fullResponse))
             rest == AfterBatch(streams, j, [r EXCEPT !.batchResults = Append(@, batchResponse(r))])
         IN  [r |-> rest.r, evs |-> <<done>> \o rest.evs]

ProviderEnd(j) ==
    /\ run[j].pc = "stream"
    /\ LET out == StreamEnd(activeStreams, j, run[j])
       IN  RunStep(j, out.r, out.evs, <<>>)
    /\ UNCHANGED <<analyses, users, activeStreams>>

\* the provider call fails: missing credential, HTTP error, no body, or a
\* failed network read; the phase rethrows it wrapped
ProviderFail(j) ==
    /\ run[j].pc = "stream"
    /\ RunStep(j, Throw(run[j], WrapError(run[j].type, run[j].i, ProviderError)), <<>>, <<>>)
    /\ UNCHANGED <<analyses, users, activeStreams>>

\* streamDelay: the timer of one iteration fires
DelayTick(j) ==
    /\ run[j].pc = "delay"
    /\ LET r == run[j]
       IN  IF r.step + 1 <= DelaySteps
           THEN RunStep(j, [r EXCEPT !.step = @ + 1], <<DelayEvent(DelayProgress(r.step + 1))>>, <<>>)
           ELSE RunStep(j, LoopHead(activeStreams, j, r, r.i), <<>>, <<>>)
    /\ UNCHANGED <<analyses, users, activeStreams>>

\* await this.storage.updateAnalysisResults(analysis.id, finalResults)
SaveResults(j) ==
    /\ run[j].pc = "saveResults"
    /\ analyses' = updateAnalysisResults(analyses, j, finalResults(run[j]))
    /\ RunStep(j, [run[j] EXCEPT !.pc = "verify"], <<>>, <<ResultsWrite("success")>>)
    /\ UNCHANGED <<users, activeStreams>>

\* faulty variant: the re-read is not checked
VerifyOutcomeUnchecked(r, row) == [r EXCEPT !.pc = "setCompleted"]

\* const updatedAnalysis = await this.storage.getAnalysis(analysisId)
VerifyOutcome(r, row) ==
    IF row.results.shape = "null" THEN Throw(r, ErrNotSaved)
    ELSE [r EXCEPT !.pc = "setCompleted"]

Verify(j) ==
    /\ run[j].pc = "verify"
    /\ RunStep(j, VerifyOutcome(run[j], analyses[j]), <<>>, <<>>)
    /\ UNCHANGED <<analyses, users, activeStreams>>

\* faulty variant: an exception of the complete broadcast escapes into the
\* catch block
AfterCompleteThrows(r) == Throw(r, Error("Stream callback error", 0, "none"))

\* the run after the completed write and the complete broadcast: the try
\* block ends without an exception (broadcastToStream lets none escape)
AfterComplete(r) == [r EXCEPT !.pc = "done"]

\* await this.storage.updateAnalysisStatus(analysisId, "completed"), then
\* the complete event
SetCompleted(j) ==
    /\ run[j].pc = "setCompleted"
    /\ analyses' = updateAnalysisStatus(analyses, j, "completed")
    /\ RunStep(j, AfterComplete(run[j]), <<CompleteEvent>>, <<StatusWrite("completed")>>)
    /\ UNCHANGED <<users, activeStreams>>

\* catch block, first await: updateAnalysisStatus(analysisId, "error")
WriteErrorStatus(j) ==
    /\ run[j].pc = "errStatus"
    /\ analyses' = updateAnalysisStatus(analyses, j, "error")
    /\ RunStep(j, [run[j] EXCEPT !.pc = "errResults"], <<>>, <<StatusWrite("error")>>)
    /\ UNCHANGED <<users, activeStreams>>

\* faulty variant: the catch block gives the credits of the run back
WriteErrorResultsRefunds(j) ==
    /\ run[j].pc = "errResults"
    /\ analyses' = updateAnalysisResults(analyses, j, errorResults(run[j]))
    /\ users' = IF run[j].hasFullAccess /\ run[j].userId # NoUser
                THEN [users EXCEPT ![run[j].userId].credits =
                                       @ + getRequiredCredits(run[j].type)]
                ELSE users
    /\ RunStep(j, [run[j] EXCEPT !.pc = "done"], <<ErrorEvent(run[j].error)>>,
               <<ResultsWrite("error")>>)
    /\ UNCHANGED activeStreams

\* catch block, second await: updateAnalysisResults with the error
\* descriptor; the rethrow reaches startAnalysis' catch, which broadcasts
WriteErrorResults(j) ==
    /\ run[j].pc = "errResults"
    /\ analyses' = updateAnalysisResults(analyses, j, errorResults(run[j]))
    /\ RunStep(j, [run[j] EXCEPT !.pc = "done"], <<ErrorEvent(run[j].error)>>,
               <<ResultsWrite("error")>>)
    /\ UNCHANGED <<users, activeStreams>>

----------------------------------------------------------------------------
(* Specification *)

Next ==
    \E j \in JobIds :
        \/ startAnalysis(j)
        \/ streamAnalysis(j)
        \/ stopStreaming(j)
        \/ stopAnalysis(j)
        \/ GetAnalysis(j)
        \/ CheckUserCredits(j)
        \/ ConsumeRead(j)
        \/ ConsumeWrite(j)
        \/ SetStreaming(j)
        \/ ProviderChunk(j)
        \/ ProviderEnd(j)
        \/ ProviderFail(j)
        \/ DelayTick(j)
        \/ SaveResults(j)
        \/ Verify(j)
        \/ SetCompleted(j)
        \/ WriteErrorStatus(j)
        \/ WriteErrorResults(j)

Spec == Init /\ [][Next]_vars

\* the steps of the run of job j
RunNext(j) ==
    \/ GetAnalysis(j) \/ CheckUserCredits(j) \/ ConsumeRead(j) \/ ConsumeWrite(j)
    \/ SetStreaming(j) \/ ProviderChunk(j) \/ ProviderEnd(j) \/ ProviderFail(j)
    \/ DelayTick(j) \/ SaveResults(j) \/ Verify(j) \/ SetCompleted(j)
    \/ WriteErrorStatus(j) \/ WriteErrorResults(j)

\* every storage call returns, every timer fires, and every provider call
\* delivers, ends or fails: a run that can take a step eventually takes one
Fairness == \A j \in JobIds : WF_vars(RunNext(j))

\* termination is explored on two-batch runs of one increment per call: a
\* job of a signed-in user with the inline loop, and an anonymous job with
\* the shared loop
FairRows ==
    {[x \in {"j1"} |-> Row("cognitive", "u1")],
     [x \in {"j1"} |-> Row("psychological", NoUser)]}

FairInit == InitWith({"j1"}, FairRows, {UserTable(CostCognitive)}, {LongList}, 1, 1)

FairSpec == FairInit /\ [][Next]_vars /\ Fairness

\* the users table with given balances of the ordinary user and of the
\* unlimited identity
CreditTable(balance, adminBalance) ==
    [u \in UserIds |->
        IF u = "admin" THEN [username |-> "jmkuczynski", credits |-> adminBalance]
        ELSE [username |-> "alice", credits |-> balance]]

\* balances around the costs of the two kinds of the credit runs: nothing,
\* enough for the cheaper kind, enough for either kind, enough for both
Balances ==
    {0, CostMicropsychological, CostPsychological,
     CostPsychological + CostMicropsychological}

CreditTables == {CreditTable(b, a) : b \in Balances, a \in {0, CostPsychological}}

\* two jobs of different cost, owned by the same user, by the unlimited
\* identity, or one of them by nobody
CreditOwners ==
    {<<"u1", "u1">>, <<"admin", "admin">>, <<NoUser, "u1">>, <<"admin", "u1">>}

CreditRows ==
    {[x \in JobIds |-> IF x = "j1" THEN Row("psychological", o[1])
                                   ELSE Row("micropsychological", o[2])] : o \in CreditOwners}

\* both jobs are accepted; each provider call delivers at most one increment
CreditInit == InitWith(JobIds, CreditRows, CreditTables, {LongList}, 1, 1)

\* the two runs with no client connected: each resolves its tier, streams
\* its summary and ends at the first checkpoint, or fails in the provider
CreditNext ==
    \E j \in JobIds :
        \/ startAnalysis(j)
        \/ GetAnalysis(j)
        \/ CheckUserCredits(j)
        \/ ConsumeRead(j)
        \/ ConsumeWrite(j)
        \/ SetStreaming(j)
        \/ ProviderChunk(j)
        \/ ProviderEnd(j)
        \/ ProviderFail(j)
        \/ WriteErrorStatus(j)
        \/ WriteErrorResults(j)

CreditSpec == CreditInit /\ [][CreditNext]_vars

----------------------------------------------------------------------------
(* Direct calls of the pure functions *)

ServiceVars == <<analyses, users, activeStreams, run, subscribers, nq, limits, log>>

\* the service right after construction: no job, no user activity
ServiceIdle ==
    /\ limits = [connections |-> 0, chunks |-> 0]
    /\ analyses = [x \in {} |-> 0]
    /\ users = UserTable(0)
    /\ nq = ShortList
    /\ activeStreams = [x \in {} |-> 0]
    /\ run = [j \in JobIds |-> OffRun]
    /\ subscribers = [cb \in Callbacks |-> NewSubscriber]
    /\ log = [j \in JobIds |-> EmptyLog]

TextsUpTo(alphabet, n) == UNION {[1..k -> alphabet] : k \in 0..n}

\* texts of words and blanks, long enough for a preview of two words
WordTexts == TextsUpTo({"a", " "}, MaxWordsLen)

\* texts with sentence marks
MarkedTexts == TextsUpTo({"a", " ", "."}, MaxTextLen)

Percentages == {PreviewPercentage, FullPercentage - 1, FullPercentage, FullPercentage + 1}

TruncateArgs(text, percentage) ==
    [call |-> "pending", text |-> text, percentage |-> percentage,
     hasFullAccess |-> FALSE, result |-> <<>>]

TruncateInit ==
    /\ ServiceIdle
    /\ probe \in {TruncateArgs(t, PreviewPercentage) : t \in WordTexts}
                 \cup {TruncateArgs(t, p) : t \in MarkedTexts, p \in Percentages}

\* this.truncateToPercentage(text, percentage)
CallTruncate ==
    /\ probe.call = "pending"
    /\ probe' = [probe EXCEPT !.call = "truncateToPercentage",
                              !.result = truncateToPercentage(probe.text, probe.percentage)]
    /\ UNCHANGED ServiceVars

\* truncateToPercentage(text, percentage) of the client
CallTruncateClient ==
    /\ probe.call = "pending"
    /\ probe' = [probe EXCEPT !.call = "truncateToPercentageClient",
                              !.result = truncateToPercentageClient(probe.text, probe.percentage)]
    /\ UNCHANGED ServiceVars

\* hasFullAccess ? text : this.truncateToPercentage(text, 30)
CallDisplayContent ==
    /\ probe.call = "pending"
    /\ \E hasFullAccess \in BOOLEAN :
          probe' = [probe EXCEPT !.call = "displayContent",
                                 !.hasFullAccess = hasFullAccess,
                                 !.result = displayContent(hasFullAccess, probe.text)]
    /\ UNCHANGED ServiceVars

TruncateNext == CallTruncate \/ CallTruncateClient \/ CallDisplayContent

TruncateSpec == TruncateInit /\ [][TruncateNext]_vars

BatchInit ==
    /\ ServiceIdle
    /\ probe \in {[call |-> "pending", items |-> getQuestions(n), batchSize |-> b,
                    result |-> <<>>] : n \in 0..MaxQuestions, b \in 1..MaxBatchSize}

\* this.createBatches(items, batchSize)
CallCreateBatches ==
    /\ probe.call = "pending"
    /\ probe' = [probe EXCEPT !.call = "createBatches",
                              !.result = createBatches(probe.items, probe.batchSize)]
    /\ UNCHANGED ServiceVars

BatchNext == CallCreateBatches

BatchSpec == BatchInit /\ [][BatchNext]_vars

\* two jobs and two connections: j1 is a stored two-batch job without an
\* owner, j2 is an id without a stored job; the callback of the first
\* connection may be one that throws
FanoutRows == {[x \in {"j1"} |-> Row("psychological", NoUser)]}

FanoutInit ==
    /\ limits = [connections |-> 2, chunks |-> 1]
    /\ analyses \in FanoutRows
    /\ users = UserTable(CostPsychological)
    /\ nq = LongList
    /\ activeStreams = [x \in {} |-> 0]
    /\ run = [j \in JobIds |-> IdleRun]
    /\ \E throwing \in SUBSET {1} :
          subscribers = [cb \in Callbacks |->
                            [NewSubscriber EXCEPT !.throws = (cb \in throwing)]]
    /\ log = [j \in JobIds |-> EmptyLog]
    /\ probe = NoProbe

\* the operations of the service and the steps a run of a job without an
\* owner takes: it makes no credit check and no deduction
FanoutNext ==
    \E j \in JobIds :
        \/ startAnalysis(j)
        \/ streamAnalysis(j)
        \/ stopStreaming(j)
        \/ stopAnalysis(j)
        \/ GetAnalysis(j)
        \/ SetStreaming(j)
        \/ ProviderChunk(j)
        \/ ProviderEnd(j)
        \/ ProviderFail(j)
        \/ DelayTick(j)
        \/ SaveResults(j)
        \/ Verify(j)
        \/ SetCompleted(j)
        \/ WriteErrorStatus(j)
        \/ WriteErrorResults(j)

FanoutSpec == FanoutInit /\ [][FanoutNext]_vars

----------------------------------------------------------------------------
(* LLMService.streamResponse: one call, on what the provider sends.  A text  *)
(* of the wire is a sequence of symbols: "data:", " ", LF, CR, the sentinel, *)
(* and the symbols of the JSON documents                                     *)

MaxLines == 3

\* the vendors with the two response formats (zhi3 and zhi4 share every
\* branch of zhi1)
Providers == {"zhi1", "zhi2"}

DoneSentinel == <<"[DONE]">>

TextSymbols == {"x", "y"}

\* JSON.parse on the documents of the wire: null, the empty object, an
\* object with choices[0].delta.content ("c"), one of type
\* content_block_delta with delta.text ("t") or one of type message_delta
\* with delta.text ("m"); anything else is a SyntaxError
JSONparse(data) ==
    IF data = <<"null">>
    THEN [ok |-> TRUE, shape |-> "null", text |-> <<>>]
    ELSE IF data = <<"{", "}">>
    THEN [ok |-> TRUE, shape |-> "empty", text |-> <<>>]
    ELSE IF /\ Len(data) >= 3
            /\ data[1] = "{" /\ data[Len(data)] = "}"
            /\ data[2] \in {"c", "t", "m"}
            /\ \A i \in 3..(Len(data) - 1) : data[i] \in TextSymbols
    THEN [ok |-> TRUE,
          shape |-> CASE data[2] = "c" -> "choices"
                      [] data[2] = "t" -> "content_block_delta"
                      [] data[2] = "m" -> "message_delta",
          text |-> SubSeq(data, 3, Len(data) - 1)]
    ELSE [ok |-> FALSE, shape |-> "none", text |-> <<>>]

\* faulty variant: for zhi2 the type of the event is not looked at
extractContentIgnoresType(parsed, provider) ==
    IF parsed.shape = "null" THEN [threw |-> TRUE, content |-> <<>>]
    ELSE IF provider = "zhi2"
    THEN [threw |-> FALSE,
          content |-> IF parsed.shape \in {"content_block_delta", "message_delta"}
                      THEN parsed.text ELSE <<>>]
    ELSE [threw |-> FALSE,
          content |-> IF parsed.shape = "choices" THEN parsed.text ELSE <<>>]

\* extractContentFromResponse: the text, or nothing (null); a property read
\* on null raises a TypeError
extractContentFromResponse(parsed, provider) ==
    IF parsed.shape = "null" THEN [threw |-> TRUE, content |-> <<>>]
    ELSE IF provider \in {"zhi1", "zhi3", "zhi4"}
    THEN [threw |-> FALSE,
          content |-> IF parsed.shape = "choices" THEN parsed.text ELSE <<>>]
    ELSE IF provider = "zhi2"
    THEN [threw |-> FALSE,
          content |-> IF parsed.shape = "content_block_delta" THEN parsed.text ELSE <<>>]
    ELSE [threw |-> FALSE, content |-> <<>>]

\* buffer.split('\n')
RECURSIVE SplitLinesFrom(_, _, _)
SplitLinesFrom(text, i, cur) ==
    IF i > Len(text) THEN <<cur>>
    ELSE IF text[i] = LF THEN <<cur>> \o SplitLinesFrom(text, i + 1, <<>>)
    ELSE SplitLinesFrom(text, i + 1, Append(cur, text[i]))

SplitLines(text) == SplitLinesFrom(text, 1, <<>>)

\* line.startsWith('data: ')
StartsWithData(line) == Len(line) >= 2 /\ line[1] = "data:" /\ line[2] = " "

\* faulty variant: no try/catch around JSON.parse and the extraction
ProcessLineUncaught(line, provider) ==
    IF ~StartsWithData(line) THEN [kind |-> "skip", content |-> <<>>]
    ELSE LET data == Trim(SubSeq(line, 3, Len(line)))
         IN  IF data = DoneSentinel THEN [kind |-> "return", content |-> <<>>]
             ELSE LET parsed == JSONparse(data)
                      got == extractContentFromResponse(parsed, provider)
                  IN  IF ~parsed.ok \/ got.threw THEN [kind |-> "throw", content |-> <<>>]
                      ELSE IF got.content # <<>>
                      THEN [kind |-> "yield", content |-> got.content]
                      ELSE [kind |-> "skip", content |-> <<>>]

\* faulty variant: the sentinel is handed to JSON.parse like any payload
ProcessLineParsesSentinel(line, provider) ==
    IF ~StartsWithData(line) THEN [kind |-> "skip", content |-> <<>>]
    ELSE LET data == Trim(SubSeq(line, 3, Len(line)))
             parsed == JSONparse(data)
             got == extractContentFromResponse(parsed, provider)
         IN  IF ~parsed.ok \/ got.threw THEN [kind |-> "skip", content |-> <<>>]
             ELSE IF got.content # <<>>
             THEN [kind |-> "yield", content |-> got.content]
             ELSE [kind |-> "skip", content |-> <<>>]

\* the body of the loop over the complete lines, for one line: the line is
\* skipped, yields an increment, or ends the generator
ProcessLine(line, provider) ==
    IF ~StartsWithData(line) THEN [kind |-> "skip", content |-> <<>>]
    ELSE LET data == Trim(SubSeq(line, 3, Len(line)))
         IN  IF data = DoneSentinel THEN [kind |-> "return", content |-> <<>>]
             ELSE LET parsed == JSONparse(data)
                      got == extractContentFromResponse(parsed, provider)
                  IN  IF ~parsed.ok \/ got.threw
                      THEN \* catch (error) { ...; continue; }
                           [kind |-> "skip", content |-> <<>>]
                      ELSE IF got.content # <<>>
                      THEN [kind |-> "yield", content |-> got.content]
                      ELSE [kind |-> "skip", content |-> <<>>]

\* for (const line of lines): p is the call, with what it has yielded
RECURSIVE ProcessLines(_, _)
ProcessLines(lines, p) ==
    IF lines = <<>> THEN p
    ELSE LET out == ProcessLine(lines[1], p.provider)
         IN  IF out.kind = "return" THEN [p EXCEPT !.pc = "returned"]
             ELSE IF out.kind = "throw"
             THEN [p EXCEPT !.pc = "threw", !.error = "SyntaxError"]
             ELSE IF out.kind = "yield"
             THEN ProcessLines(Tail(lines), [p EXCEPT !.invoked = Append(@, out.content),
                                                      !.yielded = Append(@, out.content)])
             ELSE ProcessLines(Tail(lines), p)

\* faulty variant: the credential is looked at after the request was sent
ConfigureAfterFetch(p) ==
    IF ~p.apiKey
    THEN [p EXCEPT !.pc = "threw", !.error = "API key not configured", !.fetched = TRUE]
    ELSE [p EXCEPT !.pc = "fetch"]

\* if (!config.apiKey) throw ...
Configure(p) ==
    IF ~p.apiKey
    THEN [p EXCEPT !.pc = "threw", !.error = "API key not configured"]
    ELSE [p EXCEPT !.pc = "fetch"]

\* await fetch(...), the status check and response.body?.getReader()
Fetch(p) ==
    LET sent == [p EXCEPT !.fetched = TRUE]
    IN  IF p.response = "notOk" THEN [sent EXCEPT !.pc = "threw", !.error = "LLM API error"]
        ELSE IF p.response = "noBody"
        THEN [sent EXCEPT !.pc = "threw", !.error = "Failed to get response reader"]
        ELSE [sent EXCEPT !.pc = "read"]

\* faulty variant: every chunk is split into lines on its own; what is left
\* of the chunk before is forgotten and the last piece is processed at once
ReadWithoutBuffer(p) ==
    IF p.wire = <<>> THEN [p EXCEPT !.pc = "returned"]
    ELSE ProcessLines(SplitLines(p.wire[1]),
                      [p EXCEPT !.wire = Tail(@), !.consumed = @ + 1])

\* one turn of the read loop: the reader is done, or a chunk is appended to
\* the buffer, the last piece is kept and the complete lines are processed
Read(p) ==
    IF p.wire = <<>> THEN [p EXCEPT !.pc = "returned"]
    ELSE LET lines == SplitLines(p.buffer \o p.wire[1])
             took == [p EXCEPT !.wire = Tail(@), !.consumed = @ + 1,
                               !.buffer = lines[Len(lines)]]
         IN  ProcessLines(SubSeq(lines, 1, Len(lines) - 1), took)

\* the lines a provider sends, by name
LineKinds == {"choices", "delta", "malformed", "done", "doneCR", "blank", "null"}

Line(kind) ==
    CASE kind = "choices" -> <<"data:", " ", "{", "c", "x", "}">>
      [] kind = "delta" -> <<"data:", " ", "{", "t", "y", "}">>
      [] kind = "malformed" -> <<"data:", " ", "{", "c", "x">>
      [] kind = "done" -> <<"data:", " ", "[DONE]">>
      [] kind = "doneCR" -> <<"data:", " ", "[DONE]", CR>>
      [] kind = "blank" -> <<>>
      [] kind = "null" -> <<"data:", " ", "null">>
      [] kind = "emptyChoices" -> <<"data:", " ", "{", "c", "}">>
      [] kind = "emptyDelta" -> <<"data:", " ", "{", "t", "}">>
      [] kind = "otherType" -> <<"data:", " ", "{", "m", "y", "}">>
      [] kind = "emptyObject" -> <<"data:", " ", "{", "}">>

\* the text of the lines, each ended by a line feed, except the last one
\* when the stream is cut off
RECURSIVE WireText(_, _)
WireText(kinds, terminated) ==
    IF kinds = <<>> THEN <<>>
    ELSE IF Len(kinds) = 1 /\ ~terminated THEN Line(kinds[1])
    ELSE Line(kinds[1]) \o <<LF>> \o WireText(Tail(kinds), terminated)

\* the ways the text arrives: in one network read or in two
Arrivals(text) ==
    IF text = <<>> THEN {<<>>}
    ELSE {<<text>>} \cup
         {<<SubSeq(text, 1, k), SubSeq(text, k + 1, Len(text))>> : k \in 1..(Len(text) - 1)}

\* sent: the lines the provider sends, and whether the last one is ended
StreamArgs(provider, apiKey, response, kinds, terminated, wire) ==
    [call |-> "streamResponse", provider |-> provider, apiKey |-> apiKey,
     response |-> response, sent |-> [kinds |-> kinds, terminated |-> terminated],
     wire |-> wire, pc |-> "start", buffer |-> <<>>, invoked |-> <<>>, yielded |-> <<>>,
     fetched |-> FALSE, consumed |-> 0, error |-> ""]

StreamInit ==
    /\ ServiceIdle
    /\ \E provider \in Providers :
          \/ \E kinds \in TextsUpTo(LineKinds, MaxLines) : \E terminated \in BOOLEAN :
                probe \in {StreamArgs(provider, TRUE, "ok", kinds, terminated, wire) :
                              wire \in Arrivals(WireText(kinds, terminated))}
          \/ \E apiKey \in BOOLEAN : \E response \in {"ok", "notOk", "noBody"} :
                /\ ~apiKey \/ response # "ok"
                /\ probe = StreamArgs(provider, apiKey, response, <<"choices">>, TRUE,
                                      <<WireText(<<"choices">>, TRUE)>>)

Streaming(pc) == probe.call = "streamResponse" /\ probe.pc = pc

StreamConfigure ==
    /\ Streaming("start")
    /\ probe' = Configure(probe)
    /\ UNCHANGED ServiceVars

StreamFetch ==
    /\ Streaming("fetch")
    /\ probe' = Fetch(probe)
    /\ UNCHANGED ServiceVars

StreamRead ==
    /\ Streaming("read")
    /\ probe' = Read(probe)
    /\ UNCHANGED ServiceVars

\* await reader.read() rejects: the connection broke
StreamReadFails ==
    /\ Streaming("read")
    /\ probe' = [probe EXCEPT !.pc = "threw", !.error = "read failed"]
    /\ UNCHANGED ServiceVars

StreamNext == StreamConfigure \/ StreamFetch \/ StreamRead \/ StreamReadFails

StreamSpec == StreamInit /\ [][StreamNext]_vars

----------------------------------------------------------------------------
(* streamResponse on one text that arrives in up to MaxReads network reads *)

MaxReads == 3

MaxSplitLines == 2

SplitKinds == {"choices", "delta", "done", "blank"}

\* the ways to cut a text into n pieces, none of them empty
RECURSIVE Pieces(_, _)
Pieces(text, n) ==
    IF n = 1 THEN IF text = <<>> THEN {} ELSE {<<text>>}
    ELSE UNION {{<<SubSeq(text, 1, k)>> \o rest :
                    rest \in Pieces(SubSeq(text, k + 1, Len(text)), n - 1)} :
                k \in 1..(Len(text) - 1)}

\* what reader.read() hands over, read by read
Splits(text) ==
    IF text = <<>> THEN {<<>>} ELSE UNION {Pieces(text, n) : n \in 1..MaxReads}

SplitInit ==
    /\ ServiceIdle
    /\ \E provider \in Providers :
       \E kinds \in TextsUpTo(SplitKinds, MaxSplitLines) : \E terminated \in BOOLEAN :
          probe \in {StreamArgs(provider, TRUE, "ok", kinds, terminated, wire) :
                        wire \in Splits(WireText(kinds, terminated))}

SplitSpec == SplitInit /\ [][StreamNext]_vars

----------------------------------------------------------------------------
(* streamResponse for each vendor, on events of every shape *)

MaxEvents == 2

Vendors == {"zhi1", "zhi2", "zhi3", "zhi4"}

EventKinds ==
    {"choices", "delta", "emptyChoices", "emptyDelta", "otherType", "emptyObject", "null"}

VendorInit ==
    /\ ServiceIdle
    /\ \E provider \in Vendors :
       \E kinds \in TextsUpTo(EventKinds, MaxEvents) :
          /\ kinds # <<>>
          /\ probe = StreamArgs(provider, TRUE, "ok", kinds, TRUE, <<WireText(kinds, TRUE)>>)

VendorSpec == VendorInit /\ [][StreamNext]_vars

----------------------------------------------------------------------------
(* DatabaseStorage.claimPendingCredit: concurrent POST /api/claim-credits    *)
(* requests on the pendingCredits table and the users table                  *)

\* claim requests in flight
MaxClaims == 2

Claims == 1..MaxClaims

\* the token of the one stored pending credit, and one that is not stored
ClaimTokens == {"t1", "t0"}

\* credit packages a pending credit can hold
PendingAmounts == {CostMicropsychological, CostPsychological}

NoRecord == [found |-> FALSE]

\* getPendingCreditByToken
getPendingCreditByToken(table, claimToken) ==
    IF claimToken \in DOMAIN table THEN [found |-> TRUE, row |-> table[claimToken]]
    ELSE NoRecord

NewClaim(userId, claimToken) ==
    [userId |-> userId, claimToken |-> claimToken, pc |-> "lookup",
     updatedCredit |-> NoRecord, credits |-> 0, result |-> NoRecord]

ClaimInit ==
    /\ limits = [connections |-> 0, chunks |-> 0]
    /\ analyses = [x \in {} |-> 0]
    /\ \E balance \in {0, CostMicropsychological} : users = UserTable(balance)
    /\ nq = ShortList
    /\ activeStreams = [x \in {} |-> 0]
    /\ run = [j \in JobIds |-> OffRun]
    /\ subscribers = [cb \in Callbacks |-> NewSubscriber]
    /\ log = [j \in JobIds |-> EmptyLog]
    /\ \E amount \in PendingAmounts :
       \E callers \in [Claims -> UserIds] : \E tokens \in [Claims -> ClaimTokens] :
          probe = [call |-> "claimPendingCredit",
                   pendingCredits |->
                       [t \in {"t1"} |-> [credits |-> amount, claimed |-> FALSE,
                                          claimedByUserId |-> NoUser]],
                   opening |-> users,
                   claims |-> [c \in Claims |-> NewClaim(callers[c], tokens[c])]]

Claiming(c, pc) == probe.call = "claimPendingCredit" /\ probe.claims[c].pc = pc

ClaimUnchanged == <<analyses, activeStreams, run, subscribers, nq, limits, log>>

\* const pendingCredit = await this.getPendingCreditByToken(claimToken);
\* if (!pendingCredit || pendingCredit.claimed) return undefined
ClaimLookup(c) ==
    /\ Claiming(c, "lookup")
    /\ LET pendingCredit == getPendingCreditByToken(probe.pendingCredits,
                                                    probe.claims[c].claimToken)
       IN  IF ~pendingCredit.found \/ pendingCredit.row.claimed
           THEN probe' = [probe EXCEPT !.claims[c].pc = "returned"]
           ELSE probe' = [probe EXCEPT !.claims[c].pc = "update"]
    /\ UNCHANGED <<users, ClaimUnchanged>>

\* await db.update(pendingCredits).set({claimed: true, claimedByUserId})
\*     .where(eq(pendingCredits.claimToken, claimToken)).returning()
ClaimUpdate(c) ==
    /\ Claiming(c, "update")
    /\ LET token == probe.claims[c].claimToken
           row == [probe.pendingCredits[token] EXCEPT
                      !.claimed = TRUE, !.claimedByUserId = probe.claims[c].userId]
       IN  probe' = [probe EXCEPT !.pendingCredits[token] = row,
                                  !.claims[c].updatedCredit = [found |-> TRUE, row |-> row],
                                  !.claims[c].pc = "getUser"]
    /\ UNCHANGED <<users, ClaimUnchanged>>

\* const user = await this.getUserById(userId);
\* const newCredits = (user.credits || 0) + updatedCredit.credits
ClaimGetUser(c) ==
    /\ Claiming(c, "getUser")
    /\ probe' = [probe EXCEPT
                    !.claims[c].credits = users[probe.claims[c].userId].credits
                                          + probe.claims[c].updatedCredit.row.credits,
                    !.claims[c].pc = "updateUser"]
    /\ UNCHANGED <<users, ClaimUnchanged>>

\* await this.updateUserCredits(userId, newCredits); return updatedCredit
ClaimUpdateUser(c) ==
    /\ Claiming(c, "updateUser")
    /\ users' = [users EXCEPT ![probe.claims[c].userId].credits = probe.claims[c].credits]
    /\ probe' = [probe EXCEPT !.claims[c].result = probe.claims[c].updatedCredit,
                              !.claims[c].pc = "returned"]
    /\ UNCHANGED ClaimUnchanged

ClaimNext ==
    \E c \in Claims :
        ClaimLookup(c) \/ ClaimUpdate(c) \/ ClaimGetUser(c) \/ ClaimUpdateUser(c)

ClaimSpec == ClaimInit /\ [][ClaimNext]_vars




----------------------------------------------------------------------------
(* Two jobs of different kinds that meet the same environment: the same      *)
(* client calls at the same moments and the same behaviour of the provider   *)

\* the step a run of job j without an owner takes from r, as a function:
\* the run after the step, the events it emits, its storage writes and the
\* stored row after them.  provider is what the provider does when the run
\* waits for it: "chunk", "end" or "fail"
Advance(j, r, provider) ==
    LET row == analyses[j]
        same(r2) == [r |-> r2, evs |-> <<>>, ws |-> <<>>, row |-> row]
    IN  CASE r.pc = "getAnalysis" ->
                same([r EXCEPT !.type = row.type, !.userId = row.userId,
                               !.pc = "setStreaming"])
          [] r.pc = "setStreaming" ->
                [r |-> StartCall(r, 0), evs |-> <<>>, ws |-> <<StatusWrite("streaming")>>,
                 row |-> [row EXCEPT !.status = "streaming"]]
          [] r.pc = "stream" /\ provider = "chunk" ->
                LET out == OnChunk(r, ChunkAt(r.i, r.chunks + 1))
                IN  [r |-> out.r, evs |-> out.evs, ws |-> <<>>, row |-> row]
          [] r.pc = "stream" /\ provider = "end" ->
                LET out == StreamEnd(activeStreams, j, r)
                IN  [r |-> out.r, evs |-> out.evs, ws |-> <<>>, row |-> row]
          [] r.pc = "stream" /\ provider = "fail" ->
                same(Throw(r, WrapError(r.type, r.i, ProviderError)))
          [] r.pc = "delay" ->
                IF r.step + 1 <= DelaySteps
                THEN [r |-> [r EXCEPT !.step = @ + 1],
                      evs |-> <<DelayEvent(DelayProgress(r.step + 1))>>,
                      ws |-> <<>>, row |-> row]
                ELSE same(LoopHead(activeStreams, j, r, r.i))
          [] r.pc = "saveResults" ->
                [r |-> [r EXCEPT !.pc = "verify"], evs |-> <<>>,
                 ws |-> <<ResultsWrite("success")>>,
                 row |-> [row EXCEPT !.results = finalResults(r)]]
          [] r.pc = "verify" -> same(VerifyOutcome(r, row))
          [] r.pc = "setCompleted" ->
                [r |-> AfterComplete(r), evs |-> <<CompleteEvent>>,
                 ws |-> <<StatusWrite("completed")>>,
                 row |-> [row EXCEPT !.status = "completed"]]
          [] r.pc = "errStatus" ->
                [r |-> [r EXCEPT !.pc = "errResults"], evs |-> <<>>,
                 ws |-> <<StatusWrite("error")>>, row |-> [row EXCEPT !.status = "error"]]
          [] r.pc = "errResults" ->
                [r |-> [r EXCEPT !.pc = "done"], evs |-> <<ErrorEvent(r.error)>>,
                 ws |-> <<ResultsWrite("error")>>,
                 row |-> [row EXCEPT !.results = errorResults(r)]]
          [] OTHER -> same(r)

\* pairs of kinds with different batch loops
TwinKinds ==
    {<<"cognitive", "psychological">>, <<"cognitive", "micropsychological">>,
     <<"psychological", "micropsychological">>}

TwinRows ==
    {[x \in JobIds |-> Row(IF x = "j1" THEN k[1] ELSE k[2], NoUser)] : k \in TwinKinds}

TwinInit ==
    /\ limits = [connections |-> MaxCallbacks, chunks |-> 1]
    /\ analyses \in TwinRows
    /\ users = UserTable(0)
    /\ nq \in QuestionCounts
    /\ activeStreams = [x \in {} |-> 0]
    /\ run = [j \in JobIds |-> IdleRun]
    /\ subscribers = [cb \in Callbacks |-> NewSubscriber]
    /\ log = [j \in JobIds |-> EmptyLog]
    /\ probe = NoProbe

\* both jobs are created and started
TwinStart ==
    /\ \A j \in JobIds : run[j].pc = "idle"
    /\ run' = [j \in JobIds |-> [run[j] EXCEPT !.pc = "getAnalysis"]]
    /\ UNCHANGED <<analyses, users, activeStreams, subscribers, nq, limits, log, probe>>

\* a client connects to the stream of each job
TwinStreamAnalysis ==
    /\ \E cb \in Callbacks :
        /\ cb + 1 <= limits.connections
        /\ subscribers[cb].job = NoJob
        /\ \A other \in Callbacks : other < cb => subscribers[other].job # NoJob
        /\ activeStreams' = streamAnalysisMap(streamAnalysisMap(activeStreams, "j1", cb),
                                              "j2", cb + 1)
        /\ subscribers' = [subscribers EXCEPT
                              ![cb].job = "j1", ![cb].early = (run["j1"].pc = "idle"),
                              ![cb + 1].job = "j2", ![cb + 1].early = (run["j2"].pc = "idle")]
    /\ log' = [j \in JobIds |-> [log[j] EXCEPT !.resubscribed = @ \/ log[j].stop.called]]
    /\ UNCHANGED <<analyses, users, run, nq, limits, probe>>

\* the clients of both jobs disconnect
TwinStopStreaming ==
    /\ DOMAIN activeStreams # {}
    /\ activeStreams' = stopStreamingMap(stopStreamingMap(activeStreams, "j1"), "j2")
    /\ subscribers' = [cb \in Callbacks |->
                          IF \E j \in DOMAIN activeStreams : cb \in activeStreams[j].callbacks
                          THEN [subscribers[cb] EXCEPT !.detached = "transport"]
                          ELSE subscribers[cb]]
    /\ UNCHANGED <<analyses, users, run, nq, limits, log, probe>>

\* both jobs are stopped
TwinStopAnalysis ==
    /\ \E j \in JobIds : InFlight(j) \/ j \in DOMAIN activeStreams
    /\ LET first == stopAnalysisEffect(activeStreams, subscribers, "j1")
           both == stopAnalysisEffect(first[1], first[2], "j2")
       IN  /\ activeStreams' = both[1]
           /\ subscribers' = [cb \in Callbacks |->
                                 IF /\ \E j \in DOMAIN activeStreams :
                                          cb \in activeStreams[j].callbacks
                                    /\ both[2][cb].detached = "no"
                                 THEN [both[2][cb] EXCEPT !.detached = "stop"]
                                 ELSE both[2][cb]]
    /\ log' = [j \in JobIds |->
                  [log[j] EXCEPT !.stop =
                      IF InFlight(j) /\ ~@.called
                      THEN [called |-> TRUE, channel |-> j \in DOMAIN activeStreams,
                            writes |-> Len(log[j].writes), calls |-> Len(log[j].fed),
                            pc |-> run[j].pc, step |-> run[j].step]
                      ELSE @]]
    /\ UNCHANGED <<analyses, users, run, nq, limits, probe>>

\* every run in flight takes its next step; the provider does the same in
\* the calls of both
TwinRun ==
    /\ \E j \in JobIds : InFlight(j)
    /\ \E provider \in {"chunk", "end", "fail"} :
        /\ provider = "chunk" =>
              \A j \in JobIds : run[j].pc = "stream" => run[j].chunks < limits.chunks
        /\ provider # "end" => \E j \in JobIds : run[j].pc = "stream"
        /\ LET out == [j \in JobIds |-> Advance(j, run[j], provider)]
           IN  /\ run' = [j \in JobIds |-> out[j].r]
               /\ analyses' = [j \in JobIds |-> out[j].row]
               /\ subscribers' =
                     broadcastAll(activeStreams,
                                  broadcastAll(activeStreams, subscribers, "j1", out["j1"].evs),
                                  "j2", out["j2"].evs)
               /\ log' = [j \in JobIds |->
                             [log[j] EXCEPT
                                 !.emitted = @ \o out[j].evs,
                                 !.writes = @ \o out[j].ws,
                                 !.fed = IF run[j].pc = "stream" /\ provider = "chunk"
                                         THEN [@ EXCEPT ![Len(@)] =
                                                  @ \o ChunkAt(run[j].i, run[j].chunks + 1)]
                                         ELSE IF out[j].r.pc = "stream" /\
                                                 (run[j].pc # "stream" \/ out[j].r.i # run[j].i)
                                         THEN Append(@, <<>>) ELSE @]]
    /\ UNCHANGED <<users, activeStreams, nq, limits, probe>>

TwinNext ==
    TwinStart \/ TwinStreamAnalysis \/ TwinStopStreaming \/ TwinStopAnalysis \/ TwinRun

TwinSpec == TwinInit /\ [][TwinNext]_vars




----------------------------------------------------------------------------
(* Properties *)

Jobs == DOMAIN analyses
Done(j) == run[j].pc = "done"
Positions(events, types) == {i \in 1..Len(events) : events[i].type \in types}
Wrote(j, w) == \E i \in 1..Len(log[j].writes) : log[j].writes[i] = w
WriteIndex(j, w) == CHOOSE i \in 1..Len(log[j].writes) : log[j].writes[i] = w

\* C1: a subscriber attached before the run started and not detached by
\* the transport has, once the run has ended, observed exactly one terminal
\* event (complete, error or stopped), and nothing after it.
C1_TerminalEventExactlyOnce ==
    \A cb \in Callbacks :
        LET sub == subscribers[cb]
        IN  (/\ sub.job \in JobIds
             /\ sub.early
             /\ sub.detached # "transport"
             /\ Done(sub.job))
            => /\ Cardinality(Positions(sub.received, TerminalTypes)) = 1
               /\ sub.received[Len(sub.received)].type \in TerminalTypes

\* C2: a completed job's persisted summary and batches are the
\* concatenations of the increments the provider delivered for the summary
\* call and for each batch call, in batch order, whatever the tier.
C2_FullFidelityPersistence ==
    \A j \in Jobs :
        analyses[j].status = "completed"
        => /\ analyses[j].results.shape = "success"
           /\ Len(log[j].fed) = NumBatches + 1
           /\ analyses[j].results.summary = log[j].fed[1]
           /\ Len(analyses[j].results.batches) = NumBatches
           /\ \A i \in 1..NumBatches : analyses[j].results.batches[i] = log[j].fed[i + 1]

\* a partial-tier job completed with two batches whose broadcast snapshots
\* differ from the persisted text
C2_Witness ==
    \E j \in Jobs :
        /\ analyses[j].status = "completed"
        /\ ~run[j].hasFullAccess
        /\ NumBatches = 2
        /\ truncateToPercentage(analyses[j].results.summary, PreviewPercentage)
               # analyses[j].results.summary
        /\ truncateToPercentage(analyses[j].results.batches[2], PreviewPercentage)
               # analyses[j].results.batches[2]

\* C3: status completed implies a success-shaped results payload written
\* before the status write; a re-read that finds no results leads to status
\* error and never to completed; a complete event is emitted only once
\* status completed has been written.
C3_CompletedAfterResults ==
    \A j \in Jobs :
        /\ analyses[j].status = "completed"
           => /\ analyses[j].results.shape = "success"
              /\ DOMAIN analyses[j].results = {"shape", "summary", "batches", "questions", "type"}
              /\ Wrote(j, ResultsWrite("success"))
              /\ WriteIndex(j, ResultsWrite("success")) < WriteIndex(j, StatusWrite("completed"))
        /\ run[j].error = ErrNotSaved
           => /\ ~Wrote(j, StatusWrite("completed"))
              /\ Done(j) => analyses[j].status = "error"
        /\ Positions(log[j].emitted, {"complete"}) # {}
           => analyses[j].status = "completed"

\* a completed job whose subscriber was handed the complete event
C3_Witness ==
    \E j \in Jobs, cb \in Callbacks :
        /\ analyses[j].status = "completed"
        /\ subscribers[cb].job = j
        /\ Positions(subscribers[cb].received, {"complete"}) # {}

\* the first stopAnalysis call of job j found a channel while the run was
\* at one of the given positions
StoppedAt(j, pcs) ==
    log[j].stop.called /\ log[j].stop.channel /\ log[j].stop.pc \in pcs

C5_StopNotifiesSubscribers ==
    [][\A j \in JobIds :
          (stopAnalysis(j) /\ j \in DOMAIN activeStreams)
          => \A cb \in activeStreams[j].callbacks :
                subscribers'[cb].received = Append(subscribers[cb].received, StoppedEvent)]_vars

CallFailed(j) == run[j].error.cause \in {ProviderError, NoContent}

\* C8: after a failed provider call the run makes no further call, writes
\* status error and then exactly {error, failedAt, type} as results, and
\* only then is the error event, with the message, handed to the
\* subscribers attached at that moment.
C8_FailureAbortsJob ==
    /\ [](\A j \in JobIds :
            (j \in DOMAIN analyses /\ CallFailed(j))
            => /\ run[j].pc \in {"errStatus", "errResults", "done"}
               /\ Len(log[j].fed) = run[j].error.batch + 1
               /\ run[j].pc \in {"errResults", "done"} => analyses[j].status = "error"
               /\ Done(j) => /\ analyses[j].results =
                                   [shape |-> "error", error |-> run[j].error,
                                    type |-> analyses[j].type]
                             /\ log[j].writes[Len(log[j].writes)] = ResultsWrite("error")
                             /\ log[j].writes[Len(log[j].writes) - 1] = StatusWrite("error")
                             /\ log[j].emitted[Len(log[j].emitted)] = ErrorEvent(run[j].error)
               /\ Positions(log[j].emitted, {"error"}) # {} => Done(j))
    /\ [][\A j \in JobIds :
            (WriteErrorResults(j) /\ j \in DOMAIN activeStreams)
            => \A cb \in activeStreams[j].callbacks :
                  subscribers'[cb].received =
                      Append(subscribers[cb].received, ErrorEvent(run[j].error))]_vars

\* batch 2 failed after batch 1 was obtained, and the subscriber was handed
\* the error event last
C8_Witness ==
    \E j \in Jobs, cb \in Callbacks :
        /\ Done(j)
        /\ run[j].error = Error("Batch processing failed", 2, ProviderError)
        /\ Len(run[j].batchResults) = 1
        /\ subscribers[cb].job = j
        /\ Len(subscribers[cb].received) > 0
        /\ subscribers[cb].received[Len(subscribers[cb].received)] = ErrorEvent(run[j].error)

\* C9: a job whose persisted status is error has a results payload that
\* carries an error message, in every state.
C9_ErrorStatusHasPayload ==
    \A j \in Jobs :
        analyses[j].status = "error" => analyses[j].results.shape = "error"

StatusSteps ==
    {<<"pending", "streaming">>, <<"streaming", "completed">>, <<"streaming", "error">>}

\* C10: the persisted status changes only pending -> streaming,
\* streaming -> completed and streaming -> error.
C10_StatusMonotonic ==
    [][\A j \in JobIds :
          (j \in DOMAIN analyses /\ analyses'[j].status # analyses[j].status)
          => <<analyses[j].status, analyses'[j].status>> \in StatusSteps]_vars

\* a job that went through to completed
C10_Witness ==
    \E j \in Jobs :
        /\ analyses[j].status = "completed"
        /\ log[j].writes = <<StatusWrite("streaming"), ResultsWrite("success"),
                             StatusWrite("completed")>>

\* the text a provider call of the given phase has delivered after n increments
RECURSIVE Accumulated(_, _)
Accumulated(phase, n) ==
    IF n = 0 THEN <<>> ELSE Accumulated(phase, n - 1) \o ChunkAt(phase, n)

BatchTypes == {"raw_stream", "batch_complete"}

\* the order every subsequence of a job's events keeps: summary events first,
\* batch events by ascending batch number with batch_complete closing its
\* batch, complete last
KeepsOrder(ev) ==
    /\ \A p, q \in 1..Len(ev) :
          p < q =>
            /\ ev[q].type = "summary" => ev[p].type = "summary"
            /\ (ev[p].type \in BatchTypes /\ ev[q].type \in BatchTypes)
               => /\ ev[p].batchNumber <= ev[q].batchNumber
                  /\ ev[p].batchNumber = ev[q].batchNumber => ev[p].type = "raw_stream"
            /\ ev[p].type # "complete"

\* C11: within one job, summary events precede batch events; the raw_stream
\* events of batch k come in increment order, each with the snapshot of the
\* text accumulated so far, closed by one batch_complete for k; batch numbers
\* ascend from 1 to N without gaps; delay events stand only between batch k
\* and batch k+1, with progress ascending from 0 to 100; complete is last.
C11_EventOrder ==
    /\ \A cb \in Callbacks : KeepsOrder(subscribers[cb].received)
    /\ \A j \in Jobs :
        LET ev == log[j].emitted
            full == run[j].hasFullAccess
            RawBefore(q) == {p \in 1..q : ev[p].type = "raw_stream"
                                          /\ ev[p].batchNumber = ev[q].batchNumber}
        IN  /\ KeepsOrder(ev)
            /\ \A q \in 1..Len(ev) :
                /\ ev[q].type = "summary"
                   => ev[q].content = displayContent(full, Accumulated(0, q))
                /\ ev[q].type \in BatchTypes
                   => /\ ev[q].batchNumber \in 1..NumBatches
                      /\ ev[q].batchNumber > 1
                         => \E p \in 1..(q - 1) :
                               /\ ev[p].type = "batch_complete"
                               /\ ev[p].batchNumber = ev[q].batchNumber - 1
                /\ ev[q].type = "raw_stream"
                   => ev[q].content =
                        displayContent(full, Accumulated(ev[q].batchNumber,
                                                         Cardinality(RawBefore(q))))
                /\ ev[q].type = "batch_complete"
                   => /\ ev[q - 1].type = "raw_stream"
                      /\ ev[q - 1].batchNumber = ev[q].batchNumber
                      /\ ev[q - 1].content = ev[q].content
                /\ ev[q].type = "delay"
                   => /\ \/ /\ ev[q - 1].type = "batch_complete"
                            /\ ev[q - 1].batchNumber < NumBatches
                            /\ ev[q].progress = 0
                         \/ /\ ev[q - 1].type = "delay"
                            /\ ev[q - 1].progress < ev[q].progress
                      /\ (q < Len(ev) /\ ev[q + 1].type # "delay")
                         => /\ ev[q].progress = 100
                            /\ \/ /\ ev[q + 1].type = "raw_stream"
                                  /\ \E p \in 1..q : /\ ev[p].type = "batch_complete"
                                                     /\ ev[p].batchNumber + 1 = ev[q + 1].batchNumber
                               \/ ev[q + 1].type = "error"
            /\ analyses[j].status = "completed"
               => /\ ev[Len(ev)].type = "complete"
                  /\ \A k \in 1..NumBatches :
                        Cardinality({p \in 1..Len(ev) : ev[p].type = "batch_complete"
                                                        /\ ev[p].batchNumber = k}) = 1

\* a completed two-batch job with two increments in batch 1 and a full delay
\* between the batches
C11_Witness ==
    \E j \in Jobs :
        LET ev == log[j].emitted
        IN  /\ analyses[j].status = "completed"
            /\ NumBatches = 2
            /\ Cardinality({p \in 1..Len(ev) : ev[p].type = "raw_stream"
                                               /\ ev[p].batchNumber = 1}) = 2
            /\ \E p \in 1..Len(ev) : ev[p].type = "delay" /\ ev[p].progress = 100
            /\ ev[Len(ev)].type = "complete"

\* the owner of job j is a stored user other than the unlimited identity
OrdinaryOwner(j) ==
    /\ j \in DOMAIN analyses
    /\ analyses[j].userId # NoUser
    /\ ~IsUnlimited(users[analyses[j].userId])

\* C12: for a job of an ordinary user, a check that finds the balance below
\* the cost of the kind leaves the run at partial tier and the balance
\* unchanged; a check that finds it at or above the cost leads to full tier,
\* and the deduction lowers the stored balance by exactly the cost.
C12_CreditGate ==
    [][\A j \in JobIds :
          OrdinaryOwner(j) =>
            LET u == analyses[j].userId
                cost == getRequiredCredits(analyses[j].type)
            IN  /\ (CheckUserCredits(j) /\ users[u].credits < cost)
                   => /\ run'[j].pc = "setStreaming"
                      /\ ~run'[j].hasFullAccess
                      /\ users' = users
                /\ (CheckUserCredits(j) /\ users[u].credits >= cost)
                   => run'[j].pc = "consumeRead"
                /\ ConsumeWrite(j)
                   => /\ run'[j].hasFullAccess
                      /\ users'[u].credits = users[u].credits - cost]_vars

\* the positions of a run at which its tier is settled
TierSettled(j) ==
    run[j].pc \notin {"off", "idle", "getAnalysis", "checkUserCredits", "consumeRead"}

\* the owner of job j is the designated unlimited identity
UnlimitedOwner(j) ==
    /\ j \in DOMAIN analyses
    /\ analyses[j].userId # NoUser
    /\ users[analyses[j].userId].username = "jmkuczynski"

\* C13: a job of the unlimited identity runs at full tier whatever the
\* stored balance, its run never reaches the deduction write, and no step of
\* any run changes the balance of the unlimited identity.
C13_UnlimitedIdentity ==
    /\ [](\A j \in JobIds :
            (UnlimitedOwner(j) /\ TierSettled(j))
            => /\ run[j].hasFullAccess
               /\ run[j].pc # "consumeWrite")
    /\ [][\A u \in UserIds :
            users[u].username = "jmkuczynski" => users'[u] = users[u]]_vars

\* both jobs belong to the unlimited identity, whose balance is 0; both runs
\* have ended and ran at full tier
C13_Witness ==
    /\ \A j \in JobIds : UnlimitedOwner(j) /\ Done(j) /\ run[j].hasFullAccess
    /\ users["admin"].credits = 0

\* C14: a job without an owning user runs at partial access; no step of its
\* run is a credit check or a deduction, and none changes a user record.
C14_AnonymousIsPartial ==
    [][\A j \in JobIds :
          (j \in DOMAIN analyses /\ analyses[j].userId = NoUser /\ run'[j] # run[j])
          => /\ ~run'[j].hasFullAccess
             /\ run'[j].pc \notin {"checkUserCredits", "consumeRead", "consumeWrite"}
             /\ ~CheckUserCredits(j) /\ ~ConsumeRead(j) /\ ~ConsumeWrite(j)
             /\ users' = users]_vars

\* a job without an owner went through to completed at partial access
C14_Witness ==
    \E j \in Jobs :
        /\ analyses[j].userId = NoUser
        /\ analyses[j].status = "completed"
        /\ ~run[j].hasFullAccess
        /\ Len(log[j].emitted) > 0

ContentTypes == {"summary", "raw_stream", "batch_complete"}

\* C15: at partial tier every summary, raw_stream and batch_complete event
\* the run emits carries the word-based 30% truncation of the text the
\* provider has delivered in the current call up to that moment, and this is
\* what the attached callbacks are handed; the untruncated text goes out only
\* where the truncation leaves it as it is.
C15_PartialTierIsTruncated ==
    [][\A j \in JobIds :
          (/\ j \in DOMAIN analyses
           /\ ~run'[j].hasFullAccess
           /\ Len(log'[j].emitted) > Len(log[j].emitted))
          => \A p \in (Len(log[j].emitted) + 1)..Len(log'[j].emitted) :
                LET e == log'[j].emitted[p]
                    acc == log'[j].fed[Len(log'[j].fed)]
                IN  e.type \in ContentTypes
                    => /\ e.content = truncateToPercentage(acc, PreviewPercentage)
                       /\ e.content = acc
                          => truncateToPercentage(acc, PreviewPercentage) = acc
                       /\ \A cb \in Callbacks :
                             (j \in DOMAIN activeStreams /\ cb \in activeStreams[j].callbacks)
                             => \E q \in 1..Len(subscribers'[cb].received) :
                                   /\ q > Len(subscribers[cb].received)
                                   /\ subscribers'[cb].received[q] = e]_vars

\* a subscriber of a partial-tier job holds a summary, a raw_stream and a
\* batch_complete event, the last one shorter than the text of its batch
C15_Witness ==
    \E j \in Jobs, cb \in Callbacks :
        LET got == subscribers[cb].received
        IN  /\ ~run[j].hasFullAccess
            /\ subscribers[cb].job = j
            /\ \A t \in ContentTypes : Positions(got, {t}) # {}
            /\ \E p \in 1..Len(got) :
                  /\ got[p].type = "batch_complete"
                  /\ got[p].content # log[j].fed[got[p].batchNumber + 1]
                  /\ got[p].content =
                       truncateToPercentage(log[j].fed[got[p].batchNumber + 1], PreviewPercentage)

\* C16: truncation at full tier is the identity: displayContent with full
\* access returns the text itself, and both the server-side and the
\* client-side truncateToPercentage return the text itself for every
\* percentage of 100 or more.
C16_FullTierIsIdentity ==
    /\ (probe.call = "displayContent" /\ probe.hasFullAccess)
       => probe.result = probe.text
    /\ (probe.call \in {"truncateToPercentage", "truncateToPercentageClient"}
        /\ probe.percentage >= FullPercentage)
       => probe.result = probe.text

\* the server-side function was called with a percentage above 100 on a
\* text that starts with a blank and holds two blanks in a row
C16_Witness ==
    /\ probe.call = "truncateToPercentage"
    /\ probe.percentage > FullPercentage
    /\ Len(probe.text) = MaxTextLen
    /\ probe.text[1] = " " /\ probe.text[3] = " " /\ probe.text[4] = " "
    /\ probe.result = probe.text

\* the words of a text: its maximal runs of characters other than whitespace
RECURSIVE WordsFrom(_, _, _)
WordsFrom(text, i, cur) ==
    IF i > Len(text) THEN (IF cur = <<>> THEN <<>> ELSE <<cur>>)
    ELSE IF IsSpace(text[i])
         THEN (IF cur = <<>> THEN <<>> ELSE <<cur>>) \o WordsFrom(text, i + 1, <<>>)
         ELSE WordsFrom(text, i + 1, Append(cur, text[i]))

Words(text) == WordsFrom(text, 1, <<>>)

\* the first max(1, floor(wordCount * 0.3)) words joined by single blanks,
\* with the marker when that is shorter than the text
WordPreview(text) ==
    LET words == Words(text)
        kept == JoinSpace(Slice0(words, Max(1, (Len(words) * PreviewPercentage) \div 100)))
    IN  kept \o (IF Len(kept) < Len(text) THEN Ellipsis ELSE <<>>)

\* C17: the server-side truncateToPercentage(text, 30) returns the first
\* max(1, floor(wordCount(text) * 0.3)) whitespace-separated words of the
\* text joined by single blanks, followed by '...' exactly when that joined
\* prefix is shorter than the text.
C17_WordPreview ==
    (probe.call = "truncateToPercentage" /\ probe.percentage = PreviewPercentage)
    => probe.result = WordPreview(probe.text)

\* the same statement for texts that neither start nor end with whitespace
C17_WordPreviewOfTrimmedText ==
    (/\ probe.call = "truncateToPercentage" /\ probe.percentage = PreviewPercentage
     /\ Trim(probe.text) = probe.text)
    => probe.result = WordPreview(probe.text)

IsPrefix(a, b) == Len(a) <= Len(b) /\ SubSeq(b, 1, Len(a)) = a

\* floor(length * p / 100)
TargetIndex(text, percentage) == (Len(text) * percentage) \div 100

\* the cut points the statement allows: behind a sentence ending that starts
\* at most 100 characters before the target index, or else at the last blank
\* at or before the target index (0 when there is none)
SentenceCuts(text, t) ==
    {i + 2 : i \in {k \in Max(0, t - SentenceWindow)..t : EndingAt(text, k)}}

LastBlank(text, t) ==
    LET blanks == {c \in 1..t : c < Len(text) /\ text[c + 1] = " "}
    IN  IF blanks = {} THEN 0 ELSE CHOOSE c \in blanks : \A d \in blanks : d <= c

AllowedCuts(text, t) ==
    IF SentenceCuts(text, t) # {} THEN SentenceCuts(text, t) ELSE {LastBlank(text, t)}

RECURSIVE Flatten(_)
Flatten(batches) ==
    IF batches = <<>> THEN <<>> ELSE Head(batches) \o Flatten(Tail(batches))

\* C19: for a list of N questions and batch size 5, createBatches returns
\* ceil(N / 5) batches, each with at least one and at most 5 elements, all
\* but the last with exactly 5, whose concatenation is the list.
C19_BatchPartition ==
    (probe.call = "createBatches" /\ probe.batchSize = BatchSize)
    => LET n == Len(probe.items)
           batches == probe.result
       IN  /\ Len(batches) = (n + BatchSize - 1) \div BatchSize
           /\ \A i \in 1..Len(batches) :
                 /\ Len(batches[i]) >= 1
                 /\ Len(batches[i]) <= BatchSize
                 /\ i < Len(batches) => Len(batches[i]) = BatchSize
           /\ Flatten(batches) = probe.items

\* the 24 questions of the cognitive list were split into five batches, the
\* last one with four questions
C19_Witness ==
    /\ probe.call = "createBatches"
    /\ probe.batchSize = BatchSize
    /\ Len(probe.items) = 24
    /\ Len(probe.result) = 5
    /\ Len(probe.result[5]) = 4

\* C20: an emit for a job whose channel is absent invokes no callback,
\* creates no channel and changes none, and the emitting run goes on as it
\* would have; the emit of stopAnalysis, made on the channel it has just set
\* inactive, invokes no callback either.
C20_EmitWithoutChannelIsNoOp ==
    [][\A j \in JobIds :
          /\ (Len(log'[j].emitted) > Len(log[j].emitted) /\ j \notin DOMAIN activeStreams)
             => /\ activeStreams' = activeStreams
                /\ subscribers' = subscribers
                /\ (ProviderChunk(j) \/ DelayTick(j) \/ SetCompleted(j))
                   => /\ run'[j].error = run[j].error
                      /\ run'[j].pc # "errStatus"
          /\ stopAnalysis(j)
             => \A cb \in Callbacks :
                   subscribers'[cb].received = subscribers[cb].received]_vars

\* a callback was cleared by stopAnalysis during the delay without being
\* handed the stopped event, and the run has since emitted the last delay
\* event with no channel in the registry
C20_Witness ==
    \E j \in Jobs, cb \in Callbacks :
        LET ev == log[j].emitted
            got == subscribers[cb].received
        IN  /\ Len(ev) > 0
            /\ ev[Len(ev)] = DelayEvent(100)
            /\ j \notin DOMAIN activeStreams
            /\ subscribers[cb].job = j
            /\ subscribers[cb].detached = "stop"
            /\ Len(got) > 0
            /\ got[Len(got)] = DelayEvent(0)

----------------------------------------------------------------------------
(* Fan-out of one emit to the callbacks of a channel *)

\* the callbacks attached to the channel of job j
Attached(j) == IF j \in DOMAIN activeStreams THEN activeStreams[j].callbacks ELSE {}

\* the events the step hands to broadcastToStream for job j
Emitted(j) == SubSeq(log'[j].emitted, Len(log[j].emitted) + 1, Len(log'[j].emitted))

\* C21: when a step of the run emits on an active channel, every attached
\* callback is invoked exactly once with each event, also when another
\* attached callback throws, and the run goes on as it does when no callback
\* throws: a provider increment leaves it in the same provider call with one
\* more increment and no error
C21_FanoutIsolatesCallbacks ==
    [][\A j \in JobIds :
          (RunNext(j) /\ ~Stopped(activeStreams, j)) =>
              /\ \A cb \in Callbacks :
                    subscribers'[cb].received =
                        IF cb \in Attached(j)
                        THEN subscribers[cb].received \o Emitted(j)
                        ELSE subscribers[cb].received
              /\ (ProviderChunk(j) /\ \E cb \in Attached(j) : subscribers[cb].throws) =>
                    /\ run'[j].pc = "stream"
                    /\ run'[j].error = NoError
                    /\ run'[j].chunks = run[j].chunks + 1]_vars

\* two callbacks are attached, the one invoked first throws, and both have
\* received the whole summary event of the run
C21_Witness ==
    /\ Attached("j1") = {1, 2}
    /\ subscribers[1].throws /\ ~subscribers[2].throws
    /\ log["j1"].emitted # <<>>
    /\ log["j1"].emitted[1].type = "summary"
    /\ subscribers[1].received = log["j1"].emitted
    /\ subscribers[2].received = log["j1"].emitted

----------------------------------------------------------------------------
(* Life cycle of the registry entries *)

\* the callbacks that were attached for job j and have not been detached
Subscribed(j) ==
    {cb \in Callbacks : subscribers[cb].job = j /\ subscribers[cb].detached = "no"}

\* C22 as stated: the registry holds a channel for j exactly when a run for
\* j is in flight or a subscriber is attached for j
C22_ChannelIffRunOrSubscriber ==
    \A j \in JobIds :
        j \in DOMAIN activeStreams <=> (InFlight(j) \/ Subscribed(j) # {})

\* C22, amended: the registry holds a channel for j exactly when a
\* subscriber is attached for j, and the channel's callbacks are the attached
\* ones; a run in flight that has emitted events does not make a channel exist
C22_ChannelIffSubscriber ==
    \A j \in JobIds :
        /\ j \in DOMAIN activeStreams <=> Subscribed(j) # {}
        /\ Attached(j) = Subscribed(j)

\* a run in flight has emitted its summary and no callback was ever attached:
\* the registry is empty
C22_Witness ==
    /\ InFlight("j1")
    /\ log["j1"].emitted # <<>>
    /\ \A cb \in Callbacks : subscribers[cb].job = NoJob
    /\ activeStreams = [x \in {} |-> 0]

----------------------------------------------------------------------------
(* Independence of the channels of different jobs *)

\* an operation of the registry is called for job a: by a client, or by a
\* step of the run of a, which emits through broadcastToStream
RegistryCall(a) ==
    streamAnalysis(a) \/ stopStreaming(a) \/ stopAnalysis(a) \/ RunNext(a)

\* C23: a registry operation called for job a leaves the channel of every
\* other job b as it was (existence, callbacks, active flag), and changes
\* nothing at a callback attached to b: no event of a is delivered to it
C23_ChannelsAreIndependent ==
    [][\A a \in JobIds : \A b \in JobIds \ {a} :
          RegistryCall(a) =>
              /\ (b \in DOMAIN activeStreams') <=> (b \in DOMAIN activeStreams)
              /\ b \in DOMAIN activeStreams => activeStreams'[b] = activeStreams[b]
              /\ \A cb \in Callbacks :
                    subscribers[cb].job = b => subscribers'[cb] = subscribers[cb]]_vars

\* both jobs have a channel with one callback each; the run of j1 has emitted
\* events, which the callback of j1 received and the callback of j2 did not
C23_Witness ==
    /\ DOMAIN activeStreams = {"j1", "j2"}
    /\ \E cb1 \in Callbacks : \E cb2 \in Callbacks \ {cb1} :
          /\ activeStreams["j1"].callbacks = {cb1}
          /\ activeStreams["j2"].callbacks = {cb2}
          /\ log["j1"].emitted # <<>>
          /\ subscribers[cb1].received = log["j1"].emitted
          /\ subscribers[cb2].received = <<>>

----------------------------------------------------------------------------
(* A run for an id without a stored job *)

\* C24: the run of an id with no stored job never writes to storage, never
\* calls the provider and never reaches the credit check; its one step after
\* the failed lookup ends it with "Analysis not found", leaves the stored
\* jobs, the balances and the registry as they were, and hands one error
\* event to broadcastToStream, which only the callbacks of an active channel
\* of that id receive
C24_NotFoundFailsFirst ==
    [][\A j \in JobIds \ DOMAIN analyses :
          /\ log'[j].writes = <<>>
          /\ log'[j].fed = <<>>
          /\ run'[j].pc \in {"idle", "getAnalysis", "done"}
          /\ (run[j].pc = "getAnalysis" /\ run'[j] # run[j]) =>
                /\ run'[j].pc = "done"
                /\ run'[j].error = ErrNotFound
                /\ run'[j].hasFullAccess = FALSE
                /\ analyses' = analyses
                /\ users' = users
                /\ activeStreams' = activeStreams
                /\ log'[j].emitted = <<ErrorEvent(ErrNotFound)>>
                /\ \A cb \in Callbacks :
                      subscribers'[cb] =
                          IF cb \in Attached(j) /\ activeStreams[j].isActive
                          THEN [subscribers[cb] EXCEPT
                                   !.received = Append(@, ErrorEvent(ErrNotFound))]
                          ELSE subscribers[cb]]_vars

\* the run of the id without a stored job has ended with the error, which a
\* callback attached for that id received; nothing was written
C24_Witness ==
    /\ "j2" \notin DOMAIN analyses
    /\ run["j2"].pc = "done"
    /\ run["j2"].error = ErrNotFound
    /\ log["j2"].writes = <<>>
    /\ \E cb \in Callbacks :
          /\ subscribers[cb].job = "j2"
          /\ subscribers[cb].received = <<ErrorEvent(ErrNotFound)>>

----------------------------------------------------------------------------
(* A provider call that ends without an increment *)

\* the events of the given types the run of j emitted for batch k
EventsOf(j, types, k) ==
    {n \in Positions(log[j].emitted, types) : log[j].emitted[n].batchNumber = k}

\* what the provider delivered in the latest call of the run of j
LastFed(j) == log[j].fed[Len(log[j].fed)]

\* the run of j failed because a provider call ended with no increment
FailedEmpty(j) == run[j].error.cause = NoContent

\* C25: a provider call that ends normally without an increment fails the
\* run at once.  In the summary phase the error mentions summary generation
\* and no summary event exists; in batch k the error names batch k, no event
\* of batch k exists and no later call is made; in both cases the whole job
\* ends in status error with the error as its results payload, and without
\* a complete event
C25_EmptyAnswerFailsJob ==
    /\ [][\A j \in Jobs :
            (ProviderEnd(j) /\ LastFed(j) = <<>>) =>
                /\ run'[j].pc = "errStatus"
                /\ run'[j].error.cause = NoContent
                /\ run'[j].error.batch = run[j].i
                /\ log'[j].emitted = log[j].emitted]_vars
    /\ [](\A j \in Jobs :
            FailedEmpty(j) =>
                LET k == run[j].error.batch
                IN  /\ Len(log[j].fed) = k + 1
                    /\ LastFed(j) = <<>>
                    /\ k = 0 => /\ run[j].error.msg = "Summary generation failed"
                                /\ Positions(log[j].emitted, {"summary"}) = {}
                    /\ k > 0 => /\ run[j].error.msg \in {"Batch processing failed",
                                                         "Micro batch processing failed"}
                                /\ EventsOf(j, BatchTypes, k) = {}
                    /\ Positions(log[j].emitted, {"complete"}) = {}
                    /\ Done(j) => /\ analyses[j].status = "error"
                                  /\ analyses[j].results.shape = "error"
                                  /\ analyses[j].results.error = run[j].error)

\* a two-batch job has ended in status error because its second batch call
\* delivered nothing, after a first batch that was answered
C25_Witness ==
    /\ "j1" \in Jobs
    /\ Done("j1")
    /\ FailedEmpty("j1")
    /\ run["j1"].error.batch = 2
    /\ Len(run["j1"].batchResults) = 1
    /\ analyses["j1"].status = "error"

----------------------------------------------------------------------------
(* The increments of a provider stream *)

StreamCalled == probe.call = "streamResponse"

Sentinels == {"done", "doneCR"}

\* the increment the documentation of the vendors gives for a line: the text
\* of a choices document for zhi1, of a content_block_delta document for zhi2
Increment(kind, provider) ==
    IF kind = "choices" /\ provider # "zhi2" THEN <<"x">>
    ELSE IF kind = "delta" /\ provider = "zhi2" THEN <<"y">>
    ELSE <<>>

\* the lines that were sent with their line feed
CompleteLines(sent) ==
    IF sent.terminated THEN sent.kinds ELSE SubSeq(sent.kinds, 1, Len(sent.kinds) - 1)

\* the lines in front of the first sentinel
RECURSIVE BeforeSentinel(_)
BeforeSentinel(kinds) ==
    IF kinds = <<>> \/ kinds[1] \in Sentinels THEN <<>>
    ELSE <<kinds[1]>> \o BeforeSentinel(Tail(kinds))

RECURSIVE Increments(_, _)
Increments(kinds, provider) ==
    IF kinds = <<>> THEN <<>>
    ELSE (IF Increment(kinds[1], provider) = <<>> THEN <<>>
          ELSE <<Increment(kinds[1], provider)>>) \o Increments(Tail(kinds), provider)

RECURSIVE Total(_)
Total(reads) == IF reads = <<>> THEN 0 ELSE Len(reads[1]) + Total(Tail(reads))

\* the number of symbols read so far
Arrived == Len(WireText(probe.sent.kinds, probe.sent.terminated)) - Total(probe.wire)

\* a sentinel line and its line feed have been read
SentinelRead ==
    LET lines == CompleteLines(probe.sent)
        front == BeforeSentinel(lines)
    IN  /\ Len(front) < Len(lines)
        /\ Arrived >= Len(WireText(SubSeq(lines, 1, Len(front) + 1), TRUE))

\* C26: a call that ends has yielded exactly the increments of the valid
\* lines in front of the sentinel, in their order, whatever malformed lines
\* stand between them; it ends only when the provider's stream is exhausted
\* or a sentinel was read, and the only errors of a call whose request
\* succeeded are failed network reads: a malformed line raises none
C26_MalformedLinesAreSkipped ==
    StreamCalled =>
        /\ probe.pc = "returned" =>
              /\ probe.yielded =
                    Increments(BeforeSentinel(CompleteLines(probe.sent)), probe.provider)
              /\ probe.invoked = probe.yielded
              /\ probe.wire = <<>> \/ SentinelRead
        /\ (probe.pc = "threw" /\ probe.consumed > 0) => probe.error = "read failed"

\* a stream of a valid line, a malformed line and a valid line, read in two
\* reads, has yielded the two increments
C26_Witness ==
    /\ StreamCalled
    /\ probe.pc = "returned"
    /\ probe.sent = [kinds |-> <<"choices", "malformed", "choices">>, terminated |-> TRUE]
    /\ probe.consumed = 2
    /\ probe.yielded = <<<<"x">>, <<"x">>>>

\* C27: once a sentinel line has been read the call has ended normally, with
\* no error and with the increments of the lines in front of the sentinel
\* only; what follows the sentinel in the same read or in a later read
\* yields nothing, and nothing more is read
C27_SentinelEndsStream ==
    /\ [](StreamCalled /\ SentinelRead =>
            /\ probe.pc = "returned"
            /\ probe.error = ""
            /\ probe.yielded =
                  Increments(BeforeSentinel(CompleteLines(probe.sent)), probe.provider))
    /\ [][(StreamCalled /\ probe.pc = "returned") => probe' = probe]_vars

\* a valid line follows the sentinel, partly in the read that brought the
\* sentinel and partly in a read that was never made
C27_Witness ==
    /\ StreamCalled
    /\ probe.pc = "returned"
    /\ probe.sent = [kinds |-> <<"choices", "done", "choices">>, terminated |-> TRUE]
    /\ probe.provider = "zhi1"
    /\ probe.wire # <<>>
    /\ probe.buffer # <<>>
    /\ probe.yielded = <<<<"x">>>>

\* C28: a call without a credential fails before the request is sent, a
\* call that gets a non-success status or a response without a body fails
\* right after the request; none of them has read anything, invoked the
\* callback or yielded an increment
C28_EarlyFailuresYieldNothing ==
    StreamCalled =>
        /\ (~probe.apiKey /\ probe.pc # "start") =>
              /\ probe.pc = "threw"
              /\ probe.error = "API key not configured"
              /\ ~probe.fetched
        /\ (probe.apiKey /\ probe.response # "ok" /\ probe.pc \notin {"start", "fetch"}) =>
              /\ probe.pc = "threw"
              /\ probe.error = IF probe.response = "notOk" THEN "LLM API error"
                               ELSE "Failed to get response reader"
        /\ (~probe.apiKey \/ probe.response # "ok") =>
              /\ probe.invoked = <<>>
              /\ probe.yielded = <<>>
              /\ probe.consumed = 0
              /\ probe.wire # <<>>

\* the call without a credential has failed, and no request was made
C28_Witness ==
    /\ StreamCalled
    /\ ~probe.apiKey
    /\ probe.pc = "threw"
    /\ ~probe.fetched
    /\ probe.yielded = <<>>

----------------------------------------------------------------------------
(* What a run does after stopAnalysis *)

\* C29 as stated: once stopAnalysis has been called during the run of j, the
\* run starts no further batch provider call, whatever streamAnalysis,
\* stopStreaming and stopAnalysis calls follow: the calls it has made are the
\* ones made before the stop, and the summary call when the stop came
\* before it
C29_NoBatchCallAfterStop ==
    \A j \in Jobs :
        log[j].stop.called => Len(log[j].fed) <= Max(log[j].stop.calls, 1)

----------------------------------------------------------------------------
(* Two runs of one user between the credit check and the deduction *)

\* the run of j has passed the credit check and not yet written its deduction
BetweenCheckAndWrite(j) == run[j].pc \in {"consumeRead", "consumeWrite"}

\* C30: nothing is reserved between the check and the deduction.  The check
\* of a job of an ordinary user leaves the balance as it is and passes
\* exactly when the stored balance covers the cost, also while another run
\* of the same user stands between its own check and its deduction write;
\* the run that passed reaches full access with its deduction write, without
\* another look at the balance
C30_CheckReservesNothing ==
    [][\A j \in JobIds :
          OrdinaryOwner(j) =>
              LET u == analyses[j].userId
                  cost == getRequiredCredits(analyses[j].type)
              IN  /\ (run[j].pc = "checkUserCredits" /\ run'[j] # run[j]) =>
                        /\ users' = users
                        /\ ~run'[j].hasFullAccess
                        /\ BetweenCheckAndWrite(j)' <=> users[u].credits >= cost
                  /\ (run[j].pc = "consumeRead" /\ run'[j] # run[j]) =>
                        /\ users' = users
                        /\ BetweenCheckAndWrite(j)'
                  /\ (run[j].pc = "consumeWrite" /\ run'[j] # run[j]) =>
                        run'[j].hasFullAccess]_vars

\* both jobs of the user run at full tier, and both deductions were computed
\* from the balance that covered the dearer job only: one wrote nothing
\* left, the other the balance less the cost of the cheaper job
C30_Witness ==
    /\ analyses["j1"].userId = "u1" /\ analyses["j2"].userId = "u1"
    /\ TierSettled("j1") /\ TierSettled("j2")
    /\ run["j1"].hasFullAccess /\ run["j2"].hasFullAccess
    /\ run["j1"].newCredits = 0
    /\ run["j2"].newCredits = CostPsychological - CostMicropsychological

----------------------------------------------------------------------------
(* A stop that arrives during the delay between two batches *)

\* the first stopAnalysis call of the run of j found the run waiting for a
\* timer of streamDelay and found a channel, and no subscriber came back
StoppedInDelay(j) ==
    /\ log[j].stop.called
    /\ log[j].stop.pc = "delay"
    /\ log[j].stop.channel
    /\ ~log[j].resubscribed

\* C31 as stated: a run that is stopped inside the delay lets the timer it
\* is waiting for fire and then ends; it starts no further timer of the
\* delay, so its step counter stays where the stop found it
C31_StopEndsDelay ==
    \A j \in Jobs :
        (StoppedInDelay(j) /\ run[j].pc = "delay") => run[j].step = log[j].stop.step

----------------------------------------------------------------------------
(* Runs of different kinds in the same environment *)

RECURSIVE TypesOf(_)
TypesOf(events) ==
    IF events = <<>> THEN <<>> ELSE <<events[1].type>> \o TypesOf(Tail(events))

\* what is observed of job j: the types of the events its run emitted, the
\* stored status and the shape of the stored results
Observed(j) ==
    [types |-> TypesOf(log[j].emitted), status |-> analyses[j].status,
     shape |-> analyses[j].results.shape]

\* C32: two jobs of different kinds with the same number of batches, whose
\* runs get the same provider behaviour and the same subscribe and stop
\* calls, have emitted the same sequence of event types and have the same
\* stored status and results shape when both runs have ended, whether they
\* completed, failed or were stopped; on the way the event types of one are
\* a prefix of those of the other
C32_KindsAreObservedAlike ==
    /\ Done("j1") /\ Done("j2") => Observed("j1") = Observed("j2")
    /\ \/ IsPrefix(TypesOf(log["j1"].emitted), TypesOf(log["j2"].emitted))
       \/ IsPrefix(TypesOf(log["j2"].emitted), TypesOf(log["j1"].emitted))

\* a run with the inline loop and a run with a shared loop were stopped
\* after their first batch and have both ended in status error: the first
\* with the error of the re-read, the second with the error of the stop
C32_Witness ==
    /\ analyses["j1"].type = "cognitive" /\ analyses["j2"].type = "psychological"
    /\ Done("j1") /\ Done("j2")
    /\ log["j1"].stop.called /\ log["j1"].stop.channel
    /\ Len(run["j1"].batchResults) = 1
    /\ run["j1"].error = ErrNotSaved
    /\ run["j2"].error = ErrStopped
    /\ analyses["j1"].status = "error" /\ analyses["j2"].status = "error"

----------------------------------------------------------------------------
(* The increments do not depend on the network reads *)

\* the call that gets the text of probe in a single read, after that read
WholeStream ==
    LET text == WireText(probe.sent.kinds, probe.sent.terminated)
    IN  Read(StreamArgs(probe.provider, TRUE, "ok", probe.sent.kinds,
                        probe.sent.terminated, IF text = <<>> THEN <<>> ELSE <<text>>))

\* C33: however the text of the provider is cut into network reads, the
\* call that has returned has yielded, and handed to onChunk, exactly the
\* increments of the call that got the text in one read; before that, and
\* when a read fails, it has yielded a prefix of them, so that no line is
\* processed twice, processed in parts, or lost because of a cut
C33_SplitsDoNotChangeIncrements ==
    StreamCalled =>
        /\ IsPrefix(probe.yielded, WholeStream.yielded)
        /\ probe.invoked = probe.yielded
        /\ Streaming("returned") => probe.yielded = WholeStream.yielded

\* a text of two data lines came in three reads, so that at least one of
\* the lines was cut, and both increments were yielded
C33_Witness ==
    /\ Streaming("returned")
    /\ probe.provider = "zhi1"
    /\ probe.sent.kinds = <<"choices", "choices">>
    /\ probe.consumed = 3
    /\ probe.yielded = <<<<"x">>, <<"x">>>>

----------------------------------------------------------------------------
(* Content extraction by vendor *)

\* C34: for zhi1, zhi3 and zhi4 an event yields the non-empty text at
\* choices[0].delta.content, for zhi2 only an event of type
\* content_block_delta yields the non-empty text at delta.text; events of
\* every other shape, and events with an empty or missing text, yield no
\* increment and raise no error: the call that has read the events has
\* yielded the increments of the events of the vendor's shape and nothing
\* else, and it ends in no error of its own
C34_ExtractionByVendor ==
    StreamCalled =>
        /\ Streaming("returned") =>
              probe.yielded = Increments(probe.sent.kinds, probe.provider)
        /\ Streaming("threw") => probe.error = "read failed"

\* zhi2 got an event of another type with a text at delta.text and then a
\* content_block_delta event, and yielded the text of the second only
C34_Witness ==
    /\ Streaming("returned")
    /\ probe.provider = "zhi2"
    /\ probe.sent.kinds = <<"otherType", "delta">>
    /\ probe.yielded = <<<<"y">>>>

----------------------------------------------------------------------------
(* A run that finds no channel at a checkpoint *)

\* the run of job j comes to a check of the batch loop in this step: after
\* the summary, after a batch, or after the delay between two batches
CheckpointStep(j) ==
    \/ ProviderEnd(j) /\ run[j].hasContent
    \/ DelayTick(j) /\ run[j].step >= DelaySteps

\* the error a run ends with after a failed check: the one thrown by the
\* shared loops, or the one of the re-read after the inline loop returned
StopErrors == {ErrStopped, ErrNotSaved}

\* C35: a run that finds no channel for its job at a checkpoint, whether no
\* subscriber ever attached, the transport removed the channel or
\* stopAnalysis did, starts no provider call in that step or later, and the
\* job ends with status error and an error results payload, the same after
\* a disconnect as after stopAnalysis
C35_NoChannelEndsRun ==
    /\ [][\A j \in Jobs :
            (CheckpointStep(j) /\ j \notin DOMAIN activeStreams) =>
                /\ run'[j].pc \in {"verify", "errStatus"}
                /\ run'[j].pc = "verify" => analyses[j].results.shape = "null"
                /\ run'[j].pc = "errStatus" => run'[j].error = ErrStopped
                /\ Len(log'[j].fed) = Len(log[j].fed)]_vars
    /\ [][\A j \in Jobs :
            run[j].pc \in {"verify", "errStatus", "errResults", "done"} =>
                Len(log'[j].fed) = Len(log[j].fed)]_vars
    /\ [](\A j \in Jobs :
            (Done(j) /\ run[j].error \in StopErrors) =>
                /\ analyses[j].status = "error"
                /\ analyses[j].results = errorResults(run[j])
                /\ log[j].emitted[Len(log[j].emitted)] = ErrorEvent(run[j].error))

\* the client of a job disconnected during its first batch and nobody
\* called stopAnalysis: the run made no call after that batch and the job
\* has status error and the error payload
C35_Witness ==
    \E j \in Jobs :
        /\ Done(j)
        /\ ~log[j].stop.called
        /\ \E cb \in Callbacks :
              subscribers[cb].job = j /\ subscribers[cb].detached = "transport"
        /\ NumBatches >= 2
        /\ Len(log[j].fed) = 2
        /\ run[j].error = ErrStopped
        /\ analyses[j].status = "error"
        /\ analyses[j].results.shape = "error"

----------------------------------------------------------------------------
(* The stored balance under the deductions of runs *)

\* C36 as stated: in every interleaving of runs the stored balance of every
\* user is at least 0, and no step of a run raises it
C36_BalanceNeverRaisedByRun ==
    /\ [](\A u \in UserIds : users[u].credits >= 0)
    /\ [][\A u \in UserIds : users'[u].credits <= users[u].credits]_vars

----------------------------------------------------------------------------
(* The place of the deduction in a run *)

\* the balance of the owner of job j before any run
OpeningBalance(j) == UserTable(CostCognitive)[analyses[j].userId].credits

\* the run of job j has written its deduction
Deducted(j) ==
    /\ analyses[j].userId # NoUser
    /\ ~IsUnlimited(users[analyses[j].userId])
    /\ run[j].hasFullAccess

\* C37: the step of a run that changes the balance of its user comes before
\* every storage write of the run, status streaming included, and before
\* its first provider call; from that step on the balance is the opening
\* balance less the cost of the kind, through every later step of the run
\* and after the run has ended, completed, failed or stopped
C37_DeductionComesFirstAndStays ==
    /\ [][\A j \in Jobs :
            (users' # users /\ run'[j] # run[j]) =>
                /\ log[j].writes = <<>>
                /\ log[j].fed = <<>>
                /\ analyses[j].status = "pending"
                /\ Deducted(j)']_vars
    /\ [](\A j \in Jobs :
            Deducted(j) =>
                /\ users[analyses[j].userId].credits =
                      OpeningBalance(j) - getRequiredCredits(analyses[j].type)
                /\ users[analyses[j].userId].credits < OpeningBalance(j))

\* a run that had deducted the cost of its kind was stopped and has ended
\* with status error, and the balance is still the reduced one
C37_Witness ==
    \E j \in Jobs :
        /\ Deducted(j)
        /\ Done(j)
        /\ log[j].stop.called
        /\ analyses[j].status = "error"
        /\ run[j].error = ErrStopped
        /\ users[analyses[j].userId].credits =
              OpeningBalance(j) - getRequiredCredits(analyses[j].type)

----------------------------------------------------------------------------
(* The active flag of the channels in the registry *)

\* C38: in every reachable state every channel in the registry has its
\* active flag set: stopStreaming and stopAnalysis clear the flag and delete
\* the entry within one call, and the channel that a later streamAnalysis
\* creates for the same job is active
C38_RegisteredChannelsAreActive ==
    \A j \in DOMAIN activeStreams : activeStreams[j].isActive

\* a job was stopped while it had a channel, a client connected after that,
\* and the registry holds an active channel for the job again
C38_Witness ==
    \E j \in Jobs :
        /\ log[j].stop.called
        /\ log[j].stop.channel
        /\ log[j].resubscribed
        /\ j \in DOMAIN activeStreams
        /\ activeStreams[j].isActive
        /\ activeStreams[j].callbacks # {}

----------------------------------------------------------------------------
(* Claims of one pending credit *)

ClaimCalled == probe.call = "claimPendingCredit"

RECURSIVE SumCredits(_, _)
SumCredits(table, ids) ==
    IF ids = {} THEN 0
    ELSE LET u == CHOOSE x \in ids : TRUE
         IN  table[u].credits + SumCredits(table, ids \ {u})

\* C39 as stated: whatever the interleaving of the claimPendingCredit calls
\* with the token of a pending credit, at most one of them returns the
\* claimed record, and the balances of all users together grow by the
\* credits of the token at most once
C39_ClaimedAtMostOnce ==
    ClaimCalled =>
        /\ Cardinality({c \in Claims : probe.claims[c].result.found}) <= 1
        /\ SumCredits(users, UserIds) <=
              SumCredits(probe.opening, UserIds) + probe.pendingCredits["t1"].credits
====
